---- MODULE Spec2Model ----
(***************************************************************************)
(* Environmental-financial valuation engine of the land-analysis backend:  *)
(* the flood, solar and carbon engines, the aggregator, and the            *)
(* /analysis/run handler that runs them and persists the result.           *)
(*                                                                         *)
(* Numbers are fixed point.  Units are named in each definition:           *)
(*   rainfall and runoff depths   mm, or tenths of a mm (suffix _d)        *)
(*   curve numbers                hundredths (92.0 is 9200)                *)
(*   risk scores                  1e-4 (0.35 is 3500)                      *)
(*   money                        whole rupees                             *)
(*   land-cover weights           percent (0.85 is 85)                     *)
(* Divisions truncate to the unit; Python's round() is RoundHalfEven.      *)
(***************************************************************************)
EXTENDS Integers, Sequences, FiniteSets, TLC

VARIABLES
    call,       \* the call under study in the function-level specifications
    ret,        \* its result (NoRet before the call returns)
    project,    \* the LandProject row the handler works on
    pc,         \* pc[r]: where the handler of request r is
    req,        \* req[r]: the request's project id and authenticated user
    started,    \* started[r]: the engines whose coroutine has begun
    finished,   \* finished[r]: the engines whose coroutine has returned
    fetched,    \* fetched[r]: outcome kind of each external fetch of r
    solar_acc,  \* solar_acc[r]: all_ghi / all_temp gathered so far
    results,    \* results[r]: flood_res, solar_res, carbon_res of r
    agg_in,     \* agg_in[r]: the arguments aggregate_analysis was called with
    full_agg,   \* full_agg[r]: what aggregate_analysis returned to r
    db_analysis,   \* table analysis_results
    db_scenarios,  \* table scenarios
    db_recommendation, \* table ai_recommendations
    response    \* response[r]: what request r was answered with

vars == <<call, ret, project, pc, req, started, finished, fetched, solar_acc,
          results, agg_in, full_agg, db_analysis, db_scenarios,
          db_recommendation, response>>

sysvars == <<project, pc, req, started, finished, fetched, solar_acc,
             results, agg_in, full_agg, db_analysis, db_scenarios,
             db_recommendation, response>>

NoRet == [none |-> TRUE]

(***************************************************************************)
(* Arithmetic helpers                                                      *)
(***************************************************************************)
Abs(x) == IF x < 0 THEN -x ELSE x

Min(a, b) == IF a <= b THEN a ELSE b

Max(a, b) == IF a >= b THEN a ELSE b

\* dict.get(k, default)
Get(d, k, default) == IF k \in DOMAIN d THEN d[k] ELSE default

RECURSIVE SumSeq(_)
SumSeq(s) == IF s = <<>> THEN 0 ELSE Head(s) + SumSeq(Tail(s))

\* round(n / d) to the nearest integer, ties to even (Python's round), d > 0
RoundHalfEven(n, d) ==
    LET q == n \div d
        r == n % d
    IN  IF 2 * r < d THEN q
        ELSE IF 2 * r > d THEN q + 1
        ELSE IF q % 2 = 0 THEN q ELSE q + 1

\* Every helper below takes its intermediate values as parameters, so that
\* each is computed once per application.

\* the odd-multiplier step of MulQR: add a once more to 2 * (a * (b \div 2))
MulQRAdd(q2, r2, a, b, c) ==
    IF b % 2 = 0 THEN <<q2, r2>>
    ELSE IF r2 >= c - a THEN <<q2 + 1, r2 - (c - a)>>
    ELSE <<q2, r2 + a>>

\* the doubling step of MulQR: h = <<q, r>> of a * (b \div 2)
MulQRDouble(h, a, b, c) ==
    IF h[2] >= c - h[2]
    THEN MulQRAdd(2 * h[1] + 1, h[2] - (c - h[2]), a, b, c)
    ELSE MulQRAdd(2 * h[1], h[2] + h[2], a, b, c)

\* <<q, r>> with a * b = q * c + r, 0 <= r < c, for 0 <= a < c, b >= 0,
\* without an intermediate product
RECURSIVE MulQR(_, _, _)
MulQR(a, b, c) ==
    IF b = 0 THEN <<0, 0>>
    ELSE MulQRDouble(MulQR(a, b \div 2, c), a, b, c)

\* <<floor(x / c), e>> with e = 0 when c divides x and lo, 1 when not
QuotFlag(x, lo, c) ==
    <<x \div c, IF x % c = 0 /\ lo % 1000 = 0 THEN 0 ELSE 1>>

\* h = <<q, r>> with its remainder reduced to the flag e
RemFlag(h) == <<h[1], IF h[2] = 0 THEN 0 ELSE 1>>

\* <<floor(a * b / c), e>> for 0 <= a < c, b >= 0, with e = 0 when c divides
\* a * b and 1 when it does not; the product is never formed when it would
\* not fit 32 bits: it is split at the thousands of b when c is a multiple
\* of 1000, and built by doubling otherwise
MulQ(a, b, c) ==
    IF a = 0 \/ b = 0 THEN <<0, 0>>
    ELSE IF a <= 2147483647 \div b THEN QuotFlag(a * b, 0, c)
    ELSE IF c % 1000 = 0 /\ a <= 2147483647 \div 1000
                         /\ a <= 2147483647 \div (b \div 1000 + 1)
    THEN QuotFlag(a * (b \div 1000) + (a * (b % 1000)) \div 1000,
                  a * (b % 1000), c \div 1000)
    ELSE RemFlag(MulQR(a, b, c))

\* whole part plus fractional part m = <<q, e>>, rounded toward minus
\* infinity once the sign of a is restored
MulDivSigned(a, whole, m) ==
    IF a >= 0 THEN whole + m[1] ELSE -(whole + m[1] + m[2])

\* floor(a * b / c) for a >= 0, b >= 0, c > 0
MulDivNat(a, b, c) == (a \div c) * b + MulQ(a % c, b, c)[1]

\* a * b / c truncated toward minus infinity; b >= 0, c > 0, a of any sign
MulDiv(a, b, c) ==
    MulDivSigned(a, (Abs(a) \div c) * b, MulQ(Abs(a) % c, b, c))

(***************************************************************************)
(* External fetches: what an HTTP call can come back with                  *)
(***************************************************************************)
FailureKinds == {"timeout", "transport", "unparsable", "incomplete"}

FetchKinds == {"ok"} \cup FailureKinds

(***************************************************************************)
(* flood_engine.py                                                         *)
(***************************************************************************)
Categories == <<"forest", "wetland", "agriculture", "urban", "open_land", "water">>

\* curve numbers, whole units
CN_TABLE ==
    [forest |-> 55, wetland |-> 78, agriculture |-> 75,
     urban |-> 92, open_land |-> 68, water |-> 98]

STORMWATER_COST_INR_M3 == 150

\* return-period multipliers, hundredths
RETURN_PERIOD_FACTORS == [rp10 |-> 125, rp25 |-> 160, rp100 |-> 220]

FALLBACK_ANNUAL_P == 1200

FALLBACK_AMC_5DAY == 45

\* fetch_flood_weather_data: the monthly and the daily GET are gathered inside
\* one try block; `m` and `d` are what each came back with:
\* [kind, annual_sum] and [kind, daily] (daily: the week's values, mm).
\* Returns <<annual_p, amc_5day>> in mm.
fetch_flood_weather_data(m, d) ==
    IF m.kind = "ok" /\ d.kind = "ok"
    THEN LET annual_p == m.annual_sum
             amc_5day == IF Len(d.daily) >= 5
                         THEN SumSeq(SubSeq(d.daily, 1, 5))
                         ELSE annual_p \div 73
         IN  <<annual_p, amc_5day>>
    ELSE <<FALLBACK_ANNUAL_P, FALLBACK_AMC_5DAY>>

get_amc_condition(amc_5day) ==
    IF amc_5day < 36 THEN 1
    ELSE IF amc_5day > 53 THEN 3
    ELSE 2

\* adjust_cn: base_cn and the result in hundredths, slope in tenths of a percent
adjust_cn(base_cn, amc, slope_pct) ==
    LET cn0 == IF amc = 1
               THEN MulDiv(base_cn, 100000, 228100 - (1281 * base_cn) \div 100)
               ELSE IF amc = 3
               THEN MulDiv(base_cn, 100000, 42700 + (573 * base_cn) \div 100)
               ELSE base_cn
        cn1 == IF slope_pct > 50
               THEN cn0 + Min(500, (slope_pct - 50) * 3)
               ELSE cn0
    IN  Min(9900, Max(1000, cn1))

\* the initial abstraction not tested: the quotient taken also when P <= Ia
calculate_runoff_mm_no_abstraction(P_d, CN) ==
    IF CN <= 0 \/ CN >= 10000 \/ P_d <= 0 THEN 0
    ELSE ((P_d - (25400000 \div CN - 2540) \div 5)
             * (P_d - (25400000 \div CN - 2540) \div 5))
            \div (P_d + (4 * (25400000 \div CN - 2540)) \div 5)

\* calculate_runoff_mm: P in tenths of a mm, CN in hundredths; tenths of a mm
calculate_runoff_mm(P_d, CN) ==
    IF CN <= 0 \/ CN >= 10000 \/ P_d <= 0 THEN 0
    ELSE LET S  == 25400000 \div CN - 2540
             Ia == S \div 5
         IN  IF P_d <= Ia THEN 0
             ELSE ((P_d - Ia) * (P_d - Ia)) \div (P_d + (4 * S) \div 5)

\* min(1.0, exp(-0.05 * elevation)) in 1e-6, for the elevations (m) of the model
elev_risk_micro(elevation) ==
    CASE elevation <= 0   -> 1000000
      [] elevation = 5    -> 778801
      [] elevation = 10   -> 606531
      [] elevation = 25   -> 286505
      [] elevation = 50   -> 82085
      [] elevation = 100  -> 6738
      [] elevation >= 400 -> 0

\* round(0.4 * elev_risk + 0.4 * rain_risk + 0.2 * slope_risk, 4), in 1e-4
composite_risk_of(annual_p, elevation, slope_pct) ==
    LET rain  == Min(3000, annual_p)      \* min(1, annual_p / 3000) * 3000
        slope == Min(300, slope_pct)      \* min(1, slope / 30) * 300 (tenths)
    IN  RoundHalfEven(3 * elev_risk_micro(elevation) + 1000 * rain + 5000 * slope, 750)

\* mutant: the boundaries taken as inclusive
risk_label_of_inclusive(composite_risk) ==
    IF composite_risk >= 7000 THEN "High"
    ELSE IF composite_risk >= 3500 THEN "Moderate"
    ELSE "Low"

risk_label_of(composite_risk) ==
    IF composite_risk > 7000 THEN "High"
    ELSE IF composite_risk > 3500 THEN "Moderate"
    ELSE "Low"

\* mutant: the delta left unclamped
delta_q_of_unclamped(q_dev, q_curr) == q_dev - q_curr

delta_q_of(q_dev, q_curr) == Max(0, q_dev - q_curr)

reported_risk_score(composite_risk) == Min(10000, composite_risk)

\* run_flood_analysis, given what the two weather GETs came back with
run_flood_analysis(m, d, distribution, elevation, slope) ==
    LET w        == fetch_flood_weather_data(m, d)
        annual_p == w[1]
        amc_cat  == get_amc_condition(w[2])
        \* p_design = 0.15 * annual_p; depth of return period k in tenths of a mm
        rp_depth(k) == (annual_p * 15 * RETURN_PERIOD_FACTORS[k]) \div 1000
        base_cn  == SumSeq([i \in 1..Len(Categories) |->
                        Get(distribution, Categories[i], 0) * CN_TABLE[Categories[i]]])
        cn_current   == adjust_cn(base_cn, amc_cat, slope)
        cn_developed == adjust_cn(9200, amc_cat, slope)
        q_curr   == calculate_runoff_mm(rp_depth("rp25"), cn_current)
        q_dev    == calculate_runoff_mm(rp_depth("rp25"), cn_developed)
        delta_q  == delta_q_of(q_dev, q_curr)
        composite_risk == composite_risk_of(annual_p, elevation, slope)
    IN  [annual_rainfall_mm    |-> annual_p,
         design_storm_p_mm     |-> (annual_p * 15) \div 100,
         amc_condition         |-> amc_cat,
         cn_current            |-> cn_current,
         cn_developed          |-> cn_developed,
         flood_depth_10yr_mm   |-> calculate_runoff_mm(rp_depth("rp10"), cn_current),
         flood_depth_25yr_mm   |-> calculate_runoff_mm(rp_depth("rp25"), cn_current),
         flood_depth_100yr_mm  |-> calculate_runoff_mm(rp_depth("rp100"), cn_current),
         delta_runoff_mm       |-> delta_q,
         \* (delta_q / 1000) * 150 rupees per m2, in 1e-4 rupees
         annual_damage_avoided_inr_per_m2 |-> delta_q * STORMWATER_COST_INR_M3,
         flood_risk_score      |-> reported_risk_score(composite_risk),
         risk_label            |-> risk_label_of(composite_risk),
         detention_storage_m3_per_ha |-> delta_q * 10]

(***************************************************************************)
(* solar_engine.py                                                         *)
(* irradiance in 1e-3 kWh/m2/day, temperature in hundredths of a degree,   *)
(* capacity in W, energy in Wh, money in rupees                            *)
(***************************************************************************)
PANEL_AREA_M2_X10 == 16

PANEL_W == 288                  \* PANEL_AREA_M2 * PANEL_EFFICIENCY, in W

PANEL_LIFETIME_YEARS == 25

CAPEX_PER_W_INR == 55

FALLBACK_GHI == 5200

FALLBACK_TEMP == 2500

SOLAR_YEARS == 4                \* range(1, 5): the four years fetched

\* eligible fraction of each land cover, percent
SOLAR_ELIGIBLE_FRACTION ==
    [open_land |-> 100, agriculture |-> 40, urban |-> 25,
     forest |-> 0, wetland |-> 0, water |-> 5]

RECURSIVE FilterGe(_, _)
FilterGe(s, lo) ==
    IF s = <<>> THEN <<>>
    ELSE IF Head(s) >= lo THEN <<Head(s)>> \o FilterGe(Tail(s), lo)
    ELSE FilterGe(Tail(s), lo)

\* fetch_historical_solar_weather: the "parameter" object of the body, or {}
fetch_historical_solar_weather(resp) ==
    IF resp.kind = "ok" THEN resp.parameter ELSE <<>>

\* a series of the body: [values |-> <<...>>] for a mapping of day to number,
\* [null |-> TRUE] for a JSON null in its place
EmptySeries == [values |-> <<>>]

NoWeather == [ghi |-> <<>>, temp |-> <<>>]

\* one pass of the loop of get_solar_weather_expectation: acc is
\* [ghi |-> flat_ghi, temp |-> flat_temp] so far, resp one year's response;
\* .values() of a series that is no mapping raises AttributeError, outside
\* the try block of the fetch
solar_weather_accumulate(acc, resp) ==
    LET weather_data == fetch_historical_solar_weather(resp)
        ghi_dict  == Get(weather_data, "ALLSKY_SFC_SW_DWN", EmptySeries)
        temp_dict == Get(weather_data, "T2M", EmptySeries)
    IN  IF "raised" \in DOMAIN acc \/ DOMAIN weather_data = {} THEN acc
        ELSE IF "null" \in DOMAIN ghi_dict \/ "null" \in DOMAIN temp_dict
        THEN [raised |-> "AttributeError"]
        ELSE [ghi  |-> acc.ghi \o FilterGe(ghi_dict.values, 0),
              temp |-> acc.temp \o FilterGe(temp_dict.values, -4999)]

\* the averages get_solar_weather_expectation returns
solar_weather_expectation(acc) ==
    [ghi  |-> IF acc.ghi # <<>>
              THEN RoundHalfEven(SumSeq(acc.ghi), Len(acc.ghi)) ELSE FALLBACK_GHI,
     temp |-> IF acc.temp # <<>>
              THEN RoundHalfEven(SumSeq(acc.temp), Len(acc.temp)) ELSE FALLBACK_TEMP]

RECURSIVE solar_weather_fold(_, _)
solar_weather_fold(acc, resps) ==
    IF resps = <<>> THEN acc
    ELSE solar_weather_fold(solar_weather_accumulate(acc, Head(resps)), Tail(resps))

get_solar_weather_expectation(resps) ==
    solar_weather_expectation(solar_weather_fold(NoWeather, resps))

\* calculate_irr.  The Newton iteration is not computed: when the cash flows
\* repay the investment (their plain sum is positive) it converges; when
\* they do not, the estimate runs away and the call either returns its last
\* guess or raises OverflowError from (1 + guess) ** t, and `runaway` is the
\* one of the two that happens.
calculate_irr(total_cash_flow, runaway) ==
    IF total_cash_flow > 0 THEN "converged" ELSE runaway

IrrRunaways == {"last_guess", "OverflowError"}

\* pv_npv_metrics: the 25-year loop; st carries the year t just done, that
\* year's generation (Wh) and opex, the discount factor (1e-6) and the sums
\* (discounted energy in kWh)
RECURSIVE pv_loop(_)
pv_loop(st) ==
    IF st.t = PANEL_LIFETIME_YEARS THEN st
    ELSE LET t    == st.t + 1
             gen  == IF t = 1 THEN st.gen ELSE MulDiv(st.gen, 995, 1000)
             opex == IF t = 1 THEN st.opex ELSE MulDiv(st.opex, 1025, 1000)
             disc == MulDiv(st.disc, 100, 109)
             net_cf == MulDiv(gen, 19, 4000) - opex
         IN  pv_loop([t |-> t, gen |-> gen, opex |-> opex, disc |-> disc,
                      npv    |-> st.npv + MulDiv(net_cf, disc, 1000000),
                      total  |-> st.total + net_cf,
                      energy |-> st.energy + MulDiv(gen \div 1000, disc, 1000000),
                      costs  |-> st.costs + MulDiv(opex, disc, 1000000)])

pv_npv_metrics(annual_wh_year1, capex_inr, opex_annual_inr, runaway) ==
    LET st == pv_loop([t |-> 0, gen |-> annual_wh_year1, opex |-> opex_annual_inr,
                       disc |-> 1000000, npv |-> -capex_inr, total |-> -capex_inr,
                       energy |-> 0, costs |-> capex_inr])
    IN  [npv  |-> st.npv,
         irr  |-> calculate_irr(st.total, runaway),
         \* rupees per kWh, in hundredths
         lcoe |-> IF st.energy > 0 THEN MulDiv(st.costs, 100, st.energy) ELSE 0]

\* round(total_capex / net, 1) in tenths of a year; net in hundredths of a rupee
payback_years_of(total_capex, net_cf_x100) ==
    IF net_cf_x100 > 0
    THEN (MulDiv(total_capex, 2000, net_cf_x100) + 1) \div 2
    ELSE -((MulDiv(total_capex, 2000, -net_cf_x100) + 1) \div 2)

\* annual_gen_kwh * GRID_TARIFF_INR_KWH - opex_y1, the divisor of the payback,
\* in hundredths of a rupee (opex_y1 is one hundredth of the capex)
net_cash_flow_y1(annual_gen_wh, total_capex) ==
    MulDiv(annual_gen_wh, 19, 40) - total_capex

\* run_solar_analysis, given what the four yearly fetches gathered (acc)
solar_from_weather(acc, area_m2, distribution, runaway) ==
    LET weather == solar_weather_expectation(
                       IF "raised" \in DOMAIN acc THEN NoWeather ELSE acc)
        ghi     == weather.ghi
        temp    == weather.temp
        \* usable fraction in 1e-4
        usable_fraction == SumSeq([i \in 1..Len(Categories) |->
            Get(distribution, Categories[i], 0) * SOLAR_ELIGIBLE_FRACTION[Categories[i]]])
        usable_area_x100 == MulDiv(area_m2, usable_fraction, 100)
        \* floor(usable_area * 0.65 / 1.6)
        panel_count == MulDiv(area_m2 * usable_fraction, 65, 10000 * 10 * PANEL_AREA_M2_X10)
        capacity_w  == panel_count * PANEL_W
        \* max(0.5, 1 + TEMP_COEFF * (temp + NOCT_OFFSET - 25)), in 1/25000
        temp_derate == Max(12500, 25000 - temp)
        annual_gen_wh == MulDiv(MulDiv(MulDiv(capacity_w * 365, ghi, 1000), 85, 100),
                                temp_derate, 25000)
        total_capex == MulDiv(capacity_w * CAPEX_PER_W_INR, 105, 100)
        opex_y1     == total_capex \div 100
        metrics     == pv_npv_metrics(annual_gen_wh, total_capex, opex_y1, runaway)
        net_cf_x100 == net_cash_flow_y1(annual_gen_wh, total_capex)
    IN  IF "raised" \in DOMAIN acc
        THEN [raised |-> acc.raised]
        ELSE IF panel_count = 0
        THEN [avg_daily_ghi_kwh_m2 |-> ghi, panel_count |-> 0, npv_25yr_inr |-> 0]
        ELSE IF metrics.irr = "OverflowError"
        THEN [raised |-> "OverflowError"]
        ELSE IF net_cf_x100 = 0
        THEN [raised |-> "ZeroDivisionError"]
        ELSE [avg_daily_ghi_kwh_m2   |-> ghi,
              avg_temp_c             |-> temp,
              usable_area_m2         |-> usable_area_x100,
              panel_count            |-> panel_count,
              installed_capacity_kwp |-> capacity_w,
              annual_generation_kwh  |-> annual_gen_wh,
              annual_revenue_inr     |-> MulDiv(annual_gen_wh, 19, 4000),
              total_investment_inr   |-> total_capex,
              annual_opex_inr        |-> opex_y1,
              payback_years          |-> payback_years_of(total_capex, net_cf_x100),
              npv_25yr_inr           |-> metrics.npv,
              irr_pct                |-> metrics.irr,
              lcoe_inr_kwh           |-> metrics.lcoe,
              temp_derate_factor     |-> temp_derate]

run_solar_analysis(resps, area_m2, distribution, runaway) ==
    solar_from_weather(solar_weather_fold(NoWeather, resps),
                       area_m2, distribution, runaway)

(***************************************************************************)
(* The annuity present value: aggregator._npv_annuity and                  *)
(* carbon_engine.npv_annuity.  Rates are in percent, values in rupees.     *)
(***************************************************************************)
\* (1 + rate) ** -years, in 1e-6
RECURSIVE discount_pow(_, _)
discount_pow(rate_pct, years) ==
    IF years <= 0 THEN 1000000
    ELSE MulDiv(discount_pow(rate_pct, years - 1), 100, 100 + rate_pct)

\* annual_value * (1 - (1 + rate) ** -years) / rate
annuity_formula(annual_value, years, rate_pct) ==
    LET num == 1000000 - discount_pow(rate_pct, years)
    IN  IF rate_pct > 0 THEN MulDiv(annual_value, num, 10000 * rate_pct)
        ELSE MulDiv(annual_value, -num, 10000 * (-rate_pct))

\* mutant: the guard on a non-positive annual value or horizon removed
_npv_annuity_unguarded(annual_value, years, rate_pct) ==
    IF rate_pct = 0 THEN annual_value * years
    ELSE annuity_formula(annual_value, years, rate_pct)

_npv_annuity(annual_value, years, rate_pct) ==
    IF annual_value <= 0 \/ years <= 0 THEN 0
    ELSE IF rate_pct = 0 THEN annual_value * years
    ELSE annuity_formula(annual_value, years, rate_pct)

npv_annuity(annual_value, years, rate_pct) ==
    IF annual_value <= 0 \/ years <= 0 THEN 0
    ELSE IF rate_pct = 0 THEN annual_value * years
    ELSE annuity_formula(annual_value, years, rate_pct)

(***************************************************************************)
(* carbon_engine.py                                                        *)
(* exchange rate in hundredths of a rupee per USD, stocks in tC/ha, fluxes *)
(* in hundredths of tC/ha/yr, money in whole rupees                        *)
(***************************************************************************)
CARBON_STOCKS_TC_HA ==
    [forest |-> 150, wetland |-> 250, agriculture |-> 20,
     urban |-> 8, open_land |-> 25, water |-> 2]

CARBON_FLUX_TC_HA_YR ==
    [forest |-> 600, wetland |-> 350, agriculture |-> 25,
     urban |-> 15, open_land |-> 60, water |-> 10]

DEFAULT_USD_INR == 8300

DEFAULT_SCC_USD == 51

DEFAULT_VCS_USD == 10

DEFAULT_DISCOUNT == 6

DEFAULT_YEARS == 30

\* fetch_live_fx: resp is [kind |-> "ok", rates |-> [...]] or a failure
fetch_live_fx(resp) ==
    IF resp.kind = "ok" THEN Get(resp.rates, "INR", DEFAULT_USD_INR)
    ELSE DEFAULT_USD_INR

\* sum of d[k] * weight[k] over the keys in S
RECURSIVE WeightedSum(_, _, _)
WeightedSum(d, weight, S) ==
    IF S = {} THEN 0
    ELSE LET k == CHOOSE x \in S : TRUE
         IN  d[k] * weight[k] + WeightedSum(d, weight, S \ {k})

\* the distribution run_carbon_analysis works on: weights w over denom, after
\* the normalisation (sum further than 0.01 from 1) and the filter on the
\* known categories
carbon_distribution(distribution) ==
    LET ones     == [k \in DOMAIN distribution |-> 1]
        dist_sum == WeightedSum(distribution, ones, DOMAIN distribution)
        close    == Abs(dist_sum - 100) <= 1
        norm     == IF close \/ dist_sum > 0 THEN distribution ELSE [open_land |-> 1]
        denom    == IF close THEN 100 ELSE IF dist_sum > 0 THEN dist_sum ELSE 1
        known    == DOMAIN norm \cap DOMAIN CARBON_STOCKS_TC_HA
    IN  IF known = {} THEN [w |-> [open_land |-> 1], denom |-> 1]
        ELSE [w |-> [k \in known |-> norm[k]], denom |-> denom]

\* run_carbon_analysis with usd_inr not given (the handler's call)
run_carbon_analysis(fx, area_m2, distribution, years, discount_rate) ==
    LET usd_inr  == fetch_live_fx(fx)
        \* tenths of a m2: a non-positive area is replaced by 0.1 m2
        area_x10 == IF area_m2 <= 0 THEN 1 ELSE 10 * area_m2
        dist     == carbon_distribution(distribution)
        stock_w  == WeightedSum(dist.w, CARBON_STOCKS_TC_HA, DOMAIN dist.w)
        flux_w   == WeightedSum(dist.w, CARBON_FLUX_TC_HA_YR, DOMAIN dist.w)
        \* tC in 1e-4, tC per year in 1e-6
        total_stored_c    == MulDiv(stock_w, area_x10, 10 * dist.denom)
        total_annual_flux == MulDiv(flux_w, area_x10, 10 * dist.denom)
        \* C_TO_CO2 = 44 / 12
        stored_co2_tons == MulDiv(total_stored_c, 11, 3)
        annual_co2_tons == MulDiv(total_annual_flux, 11, 3)
        stored_value_inr  == MulDiv(MulDiv(stored_co2_tons, DEFAULT_SCC_USD, 100),
                                    usd_inr, 10000)
        annual_scc_inr    == MulDiv(MulDiv(annual_co2_tons, DEFAULT_SCC_USD, 100),
                                    usd_inr, 1000000)
        annual_credit_inr == MulDiv(MulDiv(annual_co2_tons, DEFAULT_VCS_USD, 100),
                                    usd_inr, 1000000)
        npv_scc    == npv_annuity(annual_scc_inr, years, discount_rate)
        npv_market == npv_annuity(annual_credit_inr, years, discount_rate)
    IN  [stored_carbon_tc               |-> total_stored_c,
         stored_co2_tons                |-> stored_co2_tons,
         annual_sequestration_co2_tons  |-> annual_co2_tons,
         \* in 1e-4 t
         total_co2_over_tenure_tons     |-> MulDiv(annual_co2_tons, years, 100),
         stored_carbon_value_inr        |-> stored_value_inr,
         annual_carbon_value_scc_inr    |-> annual_scc_inr,
         annual_credit_revenue_inr      |-> annual_credit_inr,
         npv_tenure_scc_inr             |-> npv_scc,
         npv_tenure_market_inr          |-> npv_market,
         total_undiscounted_revenue_inr |-> annual_credit_inr * years,
         npv_30yr_inr                   |-> npv_scc,
         npv_30yr_market_inr            |-> npv_market,
         annual_carbon_value_inr        |-> annual_scc_inr,
         inputs |-> [area_m2 |-> area_x10, distribution |-> dist.w,
                     years |-> years, discount_rate |-> discount_rate,
                     usd_inr |-> usd_inr]]

(***************************************************************************)
(* aggregator.py                                                           *)
(* money in whole rupees, FSI and overheads in percent, areas in m2        *)
(***************************************************************************)
INFRA_DR == 9

ECO_DR == 6

LAND_COST_INR_M2 ==
    [housing |-> 2500, industry |-> 1800, solar |-> 600,
     agriculture |-> 400, preserve |-> 200, mixed |-> 2000]

CONSTRUCTION_COST_INR_M2 ==
    [housing |-> 25000, industry |-> 18000, solar |-> 0,
     agriculture |-> 500, preserve |-> 200, mixed |-> 20000]

FSI ==
    [housing |-> 150, industry |-> 100, solar |-> 0,
     agriculture |-> 5, preserve |-> 1, mixed |-> 200]

SALE_PRICE_INR_M2 ==
    [housing |-> 55000, industry |-> 30000, solar |-> 0,
     agriculture |-> 2000, preserve |-> 1000, mixed |-> 45000]

INFRA_OVERHEADS ==
    [housing |-> 20, industry |-> 25, solar |-> 10,
     agriculture |-> 8, preserve |-> 5, mixed |-> 22]

DRAINAGE_COST_INR_M3_RUNOFF == 120

ECO_REF == 5000000

FIN_REF == 50000000

\* str.lower() on the intents that occur
Lower(s) ==
    CASE s = "Housing" -> "housing"
      [] s = "SOLAR"   -> "solar"
      [] OTHER         -> s

\* round(a * b / c), halves up
RoundMulDiv(a, b, c) == (MulDiv(a, 2 * b, c) + 1) \div 2

\* the fallback taken from the first table row instead of "mixed"
intent_key_of_housing(intent) ==
    IF Lower(intent) \in DOMAIN LAND_COST_INR_M2 THEN Lower(intent) ELSE "housing"

\* the key the cost tables are read with
intent_key_of(intent) ==
    IF Lower(intent) \in DOMAIN LAND_COST_INR_M2 THEN Lower(intent) ELSE "mixed"

\* flood_runoff_delta_mm in tenths of a mm, flood_risk_score in 1e-4
_development_cost_breakdown(area_m2, intent, flood_runoff_delta_mm, flood_risk_score) ==
    LET intent_key   == intent_key_of(intent)
        land_cost    == area_m2 * LAND_COST_INR_M2[intent_key]
        built_up_x100 == area_m2 * FSI[intent_key]
        construction == MulDiv(built_up_x100, CONSTRUCTION_COST_INR_M2[intent_key], 100)
        infra        == MulDiv(construction, INFRA_OVERHEADS[intent_key], 100)
        flood_mit_cost ==
            IF flood_risk_score > 3500
            THEN MulDiv(flood_runoff_delta_mm * area_m2,
                        DRAINAGE_COST_INR_M3_RUNOFF, 10000)
            ELSE 0
        total_cost    == land_cost + construction + infra + flood_mit_cost
        gross_revenue == MulDiv(built_up_x100, SALE_PRICE_INR_M2[intent_key], 100)
        net_profit    == gross_revenue - total_cost
    IN  [land_acquisition_cost_inr |-> land_cost,
         built_up_area_m2          |-> built_up_x100,
         construction_cost_inr     |-> construction,
         infrastructure_cost_inr   |-> infra,
         flood_mitigation_cost_inr |-> flood_mit_cost,
         total_project_cost_inr    |-> total_cost,
         gross_revenue_inr         |-> gross_revenue,
         net_profit_inr            |-> net_profit,
         \* tenths of a percent
         profit_margin_pct |-> IF gross_revenue > 0
                               THEN RoundMulDiv(net_profit, 1000, gross_revenue) ELSE 0,
         roi_pct           |-> IF total_cost > 0
                               THEN RoundMulDiv(net_profit, 1000, total_cost) ELSE 0]

\* the risk term counted as risk * 20
composite_score_of_risk_added(total_env_npv, net_profit, flood_risk) ==
    RoundHalfEven(10 * Min(ECO_REF, total_env_npv)
                    + Min(FIN_REF, Max(0, net_profit))
                    + 2500 * flood_risk,
                  125000)

\* round(eco_pts + fin_pts + risk_pts, 1) in tenths of a point:
\*   eco_pts  = min(1, total_env_npv / ECO_REF) * 40
\*   fin_pts  = min(1, max(0, net_profit) / FIN_REF) * 40
\*   risk_pts = (1 - flood_risk) * 20
composite_score_of(total_env_npv, net_profit, flood_risk) ==
    RoundHalfEven(10 * Min(ECO_REF, total_env_npv)
                    + Min(FIN_REF, Max(0, net_profit))
                    + 2500 * (10000 - flood_risk),
                  125000)

\* the solar share taken as the 20 % of the comment above the blend
hybrid_npv_of_solar_fifth(preserve_npv30, develop_npv, solar_npv, carbon_npv) ==
    MulDiv(preserve_npv30, 2, 5) + MulDiv(develop_npv, 2, 5)
      + MulDiv(solar_npv, 1, 5) + MulDiv(carbon_npv, 2, 5)

\* hybrid_preserve_share + hybrid_dev_share + hybrid_solar_share
\*   + hybrid_carbon_share
hybrid_npv_of(preserve_npv30, develop_npv, solar_npv, carbon_npv) ==
    MulDiv(preserve_npv30, 2, 5) + MulDiv(develop_npv, 2, 5)
      + MulDiv(solar_npv, 4, 5) + MulDiv(carbon_npv, 2, 5)

\* the results read with d[key] instead of d.get(key, default): a KeyError
\* on a flood object without its score and on an empty solar or carbon object
aggregate_analysis_indexed(area_m2, flood_data, solar_data, carbon_data, user_intent) ==
    IF \/ "flood_risk_score" \notin DOMAIN flood_data
       \/ DOMAIN solar_data = {} \/ DOMAIN carbon_data = {}
    THEN [raised |-> "KeyError"]
    ELSE [environmental_npv |-> 0, financial_npv |-> 0, composite_score |-> 0,
          cost_breakdown |->
              _development_cost_breakdown(area_m2, user_intent,
                  flood_data.delta_runoff_mm, flood_data.flood_risk_score),
          metrics |-> [flood_avoided_npv_inr |-> 0,
                       solar_npv_inr |-> solar_data.npv_25yr_inr,
                       carbon_npv_inr |-> carbon_data.npv_30yr_inr,
                       annual_flood_value_inr |-> 0],
          scenarios |-> [preserve_npv30_inr |-> 0, develop_npv_inr |-> 0,
                         hybrid_npv_inr |-> 0],
          indicators |-> [is_eco_dominant |-> FALSE,
                          is_high_risk |-> flood_data.flood_risk_score > 7000,
                          is_solar_viable |-> solar_data.npv_25yr_inr > 0,
                          is_profitable |-> FALSE, roi_pct |-> 0]]

aggregate_analysis(area_m2, flood_data, solar_data, carbon_data, user_intent) ==
    LET intent == IF user_intent # "" THEN Lower(user_intent) ELSE "mixed"
        \* annual_damage_avoided_inr_per_m2 is in 1e-4 rupees
        annual_flood_val ==
            MulDiv(Get(flood_data, "annual_damage_avoided_inr_per_m2", 0), area_m2, 10000)
        flood_npv  == _npv_annuity(annual_flood_val, 30, ECO_DR)
        solar_npv  == Get(solar_data, "npv_25yr_inr", 0)
        carbon_npv == Get(carbon_data, "npv_30yr_inr", 0)
                        + Get(carbon_data, "stored_carbon_value_inr", 0)
        total_env_npv == flood_npv + solar_npv + carbon_npv
        dev_costs  == _development_cost_breakdown(area_m2, intent,
                          Get(flood_data, "delta_runoff_mm", 0),
                          Get(flood_data, "flood_risk_score", 3000))
        net_profit == dev_costs.net_profit_inr
        preserve_annual == Get(carbon_data, "annual_credit_revenue_inr", 0)
                             + area_m2 \div 2 + annual_flood_val \div 2
        preserve_npv30 == _npv_annuity(preserve_annual, 30, ECO_DR)
        \* net_profit / (1 + INFRA_DR) ** 3
        develop_npv == MulDiv(net_profit, discount_pow(INFRA_DR, 3), 1000000)
        hybrid_npv  == hybrid_npv_of(preserve_npv30, develop_npv, solar_npv, carbon_npv)
        flood_risk  == Get(flood_data, "flood_risk_score", 5000)
    IN  [environmental_npv |-> total_env_npv,
         financial_npv     |-> net_profit,
         composite_score   |-> composite_score_of(total_env_npv, net_profit, flood_risk),
         cost_breakdown    |-> dev_costs,
         metrics |-> [flood_avoided_npv_inr  |-> flood_npv,
                      solar_npv_inr          |-> solar_npv,
                      carbon_npv_inr         |-> carbon_npv,
                      annual_flood_value_inr |-> annual_flood_val],
         scenarios |-> [preserve_npv30_inr |-> preserve_npv30,
                        develop_npv_inr    |-> develop_npv,
                        hybrid_npv_inr     |-> hybrid_npv],
         indicators |-> [is_eco_dominant |-> 2 * total_env_npv > Abs(net_profit),
                         is_high_risk    |-> flood_risk > 7000,
                         is_solar_viable |-> Get(solar_data, "npv_25yr_inr", 0) > 0,
                         is_profitable   |-> net_profit > 0,
                         roi_pct         |-> dev_costs.roi_pct]]

(***************************************************************************)
(* routers/aggregator.py: POST /analysis/run/{project_id}                  *)
(*                                                                         *)
(* run_full_analysis is a coroutine; each action below is the code one     *)
(* request runs between two suspensions (an await of an HTTP fetch).  The  *)
(* event loop interleaves the requests at those points only.  A value an   *)
(* action computes once and uses several times is bound by \E over the     *)
(* singleton set holding it.                                               *)
(***************************************************************************)
MaxRuns == 2

Runs == 1..MaxRuns

Engines == {"flood", "solar", "carbon"}

ProjectIds == {1, 2}

Users == {1, 2}

\* the rows the table land_projects can hold (one row, id 1, owned by user 1)
Parcels ==
    { [id |-> 1, user_id |-> 1, area_m2 |-> 1000,
       land_distribution_json |-> [urban |-> 60, open_land |-> 40],
       elevation_m |-> 10, slope_pct |-> 65, user_intent |-> "housing"],
      [id |-> 1, user_id |-> 1, area_m2 |-> 1000,
       land_distribution_json |-> [forest |-> 100],
       elevation_m |-> 100, slope_pct |-> 0, user_intent |-> ""] }

\* what the rainfall, irradiance and exchange-rate services can answer
SysMonthlyResponses ==
    {[kind |-> "ok", annual_sum |-> 2250]} \cup {[kind |-> k] : k \in FailureKinds}

SysDailyResponses ==
    {[kind |-> "ok", daily |-> <<9, 9, 9, 9, 9, 0, 0>>]}
        \cup {[kind |-> k] : k \in FailureKinds}

SysSolarResponses ==
    { [kind |-> "ok", parameter |->
          [ALLSKY_SFC_SW_DWN |-> [values |-> <<5200, -999000, 5600>>],
           T2M |-> [values |-> <<2500, -99900, 3100>>]]],
      [kind |-> "ok", parameter |->
          [ALLSKY_SFC_SW_DWN |-> [null |-> TRUE], T2M |-> [null |-> TRUE]]] }
        \cup {[kind |-> k] : k \in FailureKinds}

SysFxResponses ==
    {[kind |-> "ok", rates |-> [INR |-> 8437]]} \cup {[kind |-> k] : k \in FailureKinds}

\* how a fetch went: "ok" for a complete body, "failed" for an exception
\* inside the fetch, "incomplete_body" for a body whose series are missing
flood_fetch_outcome(m, d) ==
    IF m.kind = "ok" /\ d.kind = "ok" THEN "ok" ELSE "failed"

solar_fetch_outcome(resp) ==
    IF resp.kind # "ok" THEN "failed"
    ELSE IF "null" \in DOMAIN Get(resp.parameter, "ALLSKY_SFC_SW_DWN", EmptySeries)
    THEN "incomplete_body"
    ELSE "ok"

fx_fetch_outcome(resp) == IF resp.kind = "ok" THEN "ok" ELSE "failed"

\* mutant: the solar result passed where the flood result belongs
aggregate_arguments_mixed(proj, res) ==
    [area_m2 |-> proj.area_m2, flood_data |-> res.solar, solar_data |-> res.solar,
     carbon_data |-> res.carbon, user_intent |-> proj.user_intent]

\* the arguments of the call of aggregate_analysis
aggregate_arguments(proj, res) ==
    [area_m2 |-> proj.area_m2, flood_data |-> res.flood, solar_data |-> res.solar,
     carbon_data |-> res.carbon, user_intent |-> proj.user_intent]

\* the AnalysisResult row after the upsert
analysis_row(proj, res, agg) ==
    [project_id        |-> proj.id,
     flood_json        |-> res.flood,
     solar_json        |-> res.solar,
     carbon_json       |-> res.carbon,
     environmental_npv |-> agg.environmental_npv,
     financial_npv     |-> agg.financial_npv,
     composite_score   |-> agg.composite_score]

\* the develop risk taken as flood_risk + 0.2 without the cap at 1
scenario_rows_uncapped(proj, res, agg) ==
    << [project_id |-> proj.id, scenario_type |-> "preserve",
        allocation_json |-> [nature |-> 100, construction |-> 0, solar |-> 0],
        npv_30yr |-> agg.scenarios.preserve_npv30_inr, roi_pct |-> 50,
        risk_score |-> Max(0, res.flood.flood_risk_score - 1000)],
       [project_id |-> proj.id, scenario_type |-> "develop",
        allocation_json |-> [nature |-> 5, construction |-> 95, solar |-> 0],
        npv_30yr |-> agg.scenarios.develop_npv_inr,
        roi_pct |-> agg.cost_breakdown.roi_pct,
        risk_score |-> res.flood.flood_risk_score + 2000],
       [project_id |-> proj.id, scenario_type |-> "hybrid",
        allocation_json |-> [nature |-> 35, construction |-> 40, solar |-> 25],
        npv_30yr |-> agg.scenarios.hybrid_npv_inr, roi_pct |-> 100,
        risk_score |-> res.flood.flood_risk_score] >>

\* the three Scenario rows; allocations in percent, roi_pct in tenths
scenario_rows(proj, res, agg) ==
    LET scen == agg.scenarios
        cb   == agg.cost_breakdown
        flood_risk == res.flood.flood_risk_score
    IN  << [project_id |-> proj.id, scenario_type |-> "preserve",
            allocation_json |-> [nature |-> 100, construction |-> 0, solar |-> 0],
            npv_30yr |-> scen.preserve_npv30_inr, roi_pct |-> 50,
            risk_score |-> Max(0, flood_risk - 1000)],
           [project_id |-> proj.id, scenario_type |-> "develop",
            allocation_json |->
                [nature |-> 5, construction |-> 95, solar |-> 0,
                 land_cost_inr  |-> cb.land_acquisition_cost_inr,
                 build_cost_inr |-> cb.construction_cost_inr,
                 infra_cost_inr |-> cb.infrastructure_cost_inr,
                 flood_mit_inr  |-> cb.flood_mitigation_cost_inr,
                 gross_rev_inr  |-> cb.gross_revenue_inr,
                 net_profit_inr |-> cb.net_profit_inr],
            npv_30yr |-> scen.develop_npv_inr, roi_pct |-> cb.roi_pct,
            risk_score |-> Min(10000, flood_risk + 2000)],
           [project_id |-> proj.id, scenario_type |-> "hybrid",
            allocation_json |-> [nature |-> 35, construction |-> 40, solar |-> 25],
            npv_30yr |-> scen.hybrid_npv_inr, roi_pct |-> 100,
            risk_score |-> flood_risk] >>

(***************************************************************************)
(* Function-level specifications: Init draws the arguments of one call     *)
(* into `call`, the single action applies the function and stores what it  *)
(* returned in `ret`.  The handler's variables stay switched off.          *)
(***************************************************************************)
SysOff ==
    /\ project = <<>> /\ pc = <<>> /\ req = <<>>
    /\ started = <<>> /\ finished = <<>> /\ fetched = <<>>
    /\ solar_acc = <<>> /\ results = <<>> /\ agg_in = <<>> /\ full_agg = <<>>
    /\ db_analysis = <<>> /\ db_scenarios = <<>>
    /\ db_recommendation = <<>> /\ response = <<>>

\* land-cover distributions (percent), as classify_land stores them
Distributions ==
    { [forest |-> 100],
      [water |-> 100],
      [urban |-> 60, open_land |-> 40],
      [forest |-> 85, wetland |-> 10, water |-> 5],
      [agriculture |-> 70, open_land |-> 20, urban |-> 10] }

\* annual sums of the monthly PRECTOTCORR values (mm); -11988 is twelve months
\* of the service's fill value -999
FloodRainfalls == {0, 400, 1200, 2250, 2625, 3000, 4000, -11988}

\* the sample week's daily values (mm); the last body holds fewer than 5 days
FloodDailies ==
    { <<5, 5, 5, 5, 5, 5, 5>>, <<9, 9, 9, 9, 9, 0, 0>>,
      <<20, 20, 20, 20, 20, 1, 1>>, <<3, 3>> }

MonthlyResponses ==
    { [kind |-> "ok", annual_sum |-> p] : p \in FloodRainfalls }
        \cup { [kind |-> k] : k \in FailureKinds }

DailyResponses ==
    { [kind |-> "ok", daily |-> w] : w \in FloodDailies }
        \cup { [kind |-> k] : k \in FailureKinds }

Elevations == {0, 10, 100, 500}

\* slope in tenths of a percent; compute_slope_pct never returns a negative one
Slopes == {0, 65, 285, 300, 450}

\* calculate_runoff_mm called on its own: storm depths in tenths of a mm
\* (50.8 mm is the initial abstraction at CN 50) and curve numbers in
\* hundredths, inside and outside (0, 100)
RunoffInputs ==
    {-30, 0, 1, 100, 508, 509, 1000, 1800, 4500, 10000}
        \X {-500, 0, 500, 1000, 5000, 9200, 9900, 9999, 10000, 12000}

InitFlood ==
    /\ SysOff
    /\ ret = NoRet
    /\ call \in [fn : {"run_flood_analysis"}, m : MonthlyResponses,
                  d : DailyResponses, distribution : Distributions,
                  elevation : Elevations, slope : Slopes]
                \cup { [fn |-> "calculate_runoff_mm", P_mm |-> i[1], CN |-> i[2]] :
                           i \in RunoffInputs }

FloodReturns ==
    /\ call.fn = "run_flood_analysis"
    /\ ret = NoRet
    /\ ret' = run_flood_analysis(call.m, call.d, call.distribution,
                                 call.elevation, call.slope)
    /\ UNCHANGED <<call, sysvars>>

RunoffReturns ==
    /\ call.fn = "calculate_runoff_mm"
    /\ ret = NoRet
    /\ ret' = [runoff_mm |-> calculate_runoff_mm(call.P_mm, call.CN)]
    /\ UNCHANGED <<call, sysvars>>

SpecFlood == InitFlood /\ [][FloodReturns \/ RunoffReturns]_vars

FloodReturned == ret # NoRet /\ call.fn = "run_flood_analysis"

\* C5: the flood_risk_score returned by run_flood_analysis lies in [0, 1]
\* for every elevation, annual rainfall and slope.
C5_RiskScoreInUnitInterval ==
    FloodReturned => (0 <= ret.flood_risk_score /\ ret.flood_risk_score <= 10000)

\* C6: the risk label is decided by the reported flood_risk_score with the
\* boundaries exactly at 0.35 and 0.7: High iff score > 0.7, Moderate iff
\* 0.35 < score <= 0.7, Low iff score <= 0.35.
C6_LabelFollowsScore ==
    FloodReturned =>
        /\ (ret.risk_label = "High") <=> (ret.flood_risk_score > 7000)
        /\ (ret.risk_label = "Moderate") <=>
               (ret.flood_risk_score > 3500 /\ ret.flood_risk_score <= 7000)
        /\ (ret.risk_label = "Low") <=> (ret.flood_risk_score <= 3500)

\* a score exactly on the upper boundary, labelled Moderate
C6_Witness ==
    FloodReturned /\ ret.flood_risk_score = 7000 /\ ret.risk_label = "Moderate"

\* C7: delta_runoff_mm, and with it the avoided damage and the detention
\* storage, is never negative, also when the current curve number exceeds the
\* developed one.
C7_DeltaRunoffNonNegative ==
    FloodReturned =>
        /\ ret.delta_runoff_mm >= 0
        /\ ret.annual_damage_avoided_inr_per_m2 >= 0
        /\ ret.detention_storage_m3_per_ha >= 0

\* current CN above the developed CN, runoff under current cover, delta clamped
C7_Witness ==
    /\ FloodReturned
    /\ ret.cn_current > ret.cn_developed
    /\ ret.flood_depth_25yr_mm > 0
    /\ ret.delta_runoff_mm = 0

\* C23: the developed-condition curve number that run_flood_analysis computes
\* the runoff delta against, and reports as cn_developed, is 92 for every
\* AMC condition and every slope.
C23_DevelopedCnIsFixed ==
    FloodReturned => ret.cn_developed = 9200

\* C24 as stated: with S = 25400/CN - 254 and Ia = 0.2 S, calculate_runoff_mm
\* returns 0 whenever P <= Ia and (P - Ia)^2 / (P + 0.8 S) otherwise, and
\* 0 <= Q <= P for P >= 0.  (S exists for CN # 0; the quotient is compared
\* where its divisor is not 0.)
C24_RunoffFormulaEverywhere ==
    (ret # NoRet /\ call.fn = "calculate_runoff_mm") =>
        /\ call.CN > 0 =>
              LET S  == 25400000 \div call.CN - 2540
                  Ia == S \div 5
              IN  /\ call.P_mm <= Ia => ret.runoff_mm = 0
                  /\ (call.P_mm > Ia /\ call.P_mm + (4 * S) \div 5 > 0) =>
                        ret.runoff_mm = ((call.P_mm - Ia) * (call.P_mm - Ia))
                                           \div (call.P_mm + (4 * S) \div 5)
        /\ call.P_mm >= 0 => (0 <= ret.runoff_mm /\ ret.runoff_mm <= call.P_mm)

\* C24, amended: calculate_runoff_mm returns 0 for CN <= 0, for CN >= 100 and
\* for P <= 0, before S is computed; for 0 < CN < 100 and P > 0, S >= 0 and
\* the divisor P + 0.8 S is positive, and the result is 0 when P <= Ia and
\* (P - Ia)^2 / (P + 0.8 S) otherwise; 0 <= Q <= P for every P >= 0.
C24_RunoffFormulaInsideGuards ==
    (ret # NoRet /\ call.fn = "calculate_runoff_mm") =>
        /\ (call.CN <= 0 \/ call.CN >= 10000 \/ call.P_mm <= 0) => ret.runoff_mm = 0
        /\ (call.CN > 0 /\ call.CN < 10000 /\ call.P_mm > 0) =>
              LET S  == 25400000 \div call.CN - 2540
                  Ia == S \div 5
              IN  /\ S >= 0
                  /\ call.P_mm + (4 * S) \div 5 > 0
                  /\ call.P_mm <= Ia => ret.runoff_mm = 0
                  /\ call.P_mm > Ia =>
                        ret.runoff_mm = ((call.P_mm - Ia) * (call.P_mm - Ia))
                                           \div (call.P_mm + (4 * S) \div 5)
        /\ call.P_mm >= 0 => (0 <= ret.runoff_mm /\ ret.runoff_mm <= call.P_mm)

\* 10 mm on CN 100: S = 0 and Ia = 0, so P > Ia and the quotient is 10 mm,
\* but the guard answers 0
C24_Witness ==
    /\ ret # NoRet /\ call.fn = "calculate_runoff_mm"
    /\ call.CN = 10000 /\ call.P_mm = 100
    /\ ret.runoff_mm = 0

(***************************************************************************)
(* run_solar_analysis on its own                                           *)
(***************************************************************************)
\* bodies of the irradiance service: a good month with one day of the fill
\* value -999, a month without sun, a body without the irradiance series, a
\* body whose series are JSON null, and a failed fetch
SolarResponses ==
    { [kind |-> "ok", parameter |->
          [ALLSKY_SFC_SW_DWN |-> [values |-> <<5200, -999000, 5600>>],
           T2M |-> [values |-> <<2500, -99900, 3100>>]]],
      [kind |-> "ok", parameter |->
          [ALLSKY_SFC_SW_DWN |-> [values |-> <<0, 0>>],
           T2M |-> [values |-> <<3000>>]]],
      [kind |-> "ok", parameter |-> [T2M |-> [values |-> <<3000>>]]],
      [kind |-> "ok", parameter |->
          [ALLSKY_SFC_SW_DWN |-> [null |-> TRUE], T2M |-> [null |-> TRUE]]],
      [kind |-> "timeout"] }

\* m2; a parcel with no area and one with a negative area included
SolarAreas == {-100, 0, 2, 1000}

InitSolar ==
    /\ SysOff
    /\ ret = NoRet
    /\ call \in [fn : {"run_solar_analysis"},
                 resps : [1..SOLAR_YEARS -> SolarResponses],
                 area_m2 : SolarAreas, distribution : Distributions]

SolarReturns ==
    /\ call.fn = "run_solar_analysis"
    /\ ret = NoRet
    /\ \E runaway \in IrrRunaways :
          ret' = run_solar_analysis(call.resps, call.area_m2,
                                    call.distribution, runaway)
    /\ UNCHANGED <<call, sysvars>>

SpecSolar == InitSolar /\ [][SolarReturns]_vars

\* run_solar_analysis returned a result (it did not raise)
SolarReturned ==
    ret # NoRet /\ call.fn = "run_solar_analysis" /\ "raised" \notin DOMAIN ret

SolarNumericOutputs ==
    {"installed_capacity_kwp", "annual_generation_kwh", "annual_revenue_inr",
     "total_investment_inr", "annual_opex_inr", "npv_25yr_inr", "lcoe_inr_kwh",
     "panel_count"}

\* C9: when the panel count is 0 the solar result is all-zero: installed
\* capacity, annual generation, annual revenue, capex, opex, NPV, LCOE and
\* panel count are each present in the result and equal to 0.
C9_ZeroPanelsAllZeroResult ==
    (SolarReturned /\ ret.panel_count = 0) =>
        \A k \in SolarNumericOutputs : k \in DOMAIN ret /\ ret[k] = 0

\* C22: for every area <= 0 run_solar_analysis yields the zero-panel result
\* and raises nothing, and no physical quantity it reports (panel count,
\* installed capacity) is negative.  (run_carbon_analysis replaces such an
\* area by 0.1 m2; it is run_solar_analysis that is checked here.)
C22_NonPositiveAreaIsDegenerate ==
    (SolarReturned /\ call.area_m2 <= 0) =>
        /\ "raised" \notin DOMAIN ret
        /\ ret.panel_count = 0
        /\ Get(ret, "installed_capacity_kwp", 0) >= 0

\* C25: calculate_irr ends, for every cash-flow series, by returning an
\* estimate: the new one when two successive estimates are within 1e-7, the
\* last one when the 100 iterations are used up or the derivative is below
\* 1e-6; it raises nothing, so no run_solar_analysis ends in an exception
\* that calculate_irr raised.
C25_IrrReturnsAnEstimate ==
    (ret # NoRet /\ call.fn = "run_solar_analysis") =>
        ~("raised" \in DOMAIN ret /\ ret.raised = "OverflowError")

\* C10: a payback in years is reported only when the year-1 net cash flow
\* (annual revenue minus year-1 opex) is positive, and is then not negative;
\* with a zero or negative cash flow the result carries no number for it and
\* the division is not attempted.
C10_PaybackOnlyForPositiveCashFlow ==
    /\ (ret # NoRet /\ call.fn = "run_solar_analysis")
           => Get(ret, "raised", "") # "ZeroDivisionError"
    /\ (SolarReturned /\ "payback_years" \in DOMAIN ret) =>
           /\ net_cash_flow_y1(ret.annual_generation_kwh,
                               ret.total_investment_inr) > 0
           /\ ret.payback_years >= 0

(***************************************************************************)
(* The two annuity functions on the same arguments                         *)
(***************************************************************************)
NpvAnnuals == {-500, 0, 1, 1000, 250000}

NpvYears == {-1, 0, 1, 10, 25, 30}

\* percent; -5 is a negative discount rate
NpvRates == {0, 6, 9, -5}

InitNpv ==
    /\ SysOff
    /\ ret = NoRet
    /\ call \in [fn : {"npv_annuity"}, annual_value : NpvAnnuals,
                 years : NpvYears, rate : NpvRates]

NpvReturns ==
    /\ call.fn = "npv_annuity"
    /\ ret = NoRet
    /\ ret' = [aggregator |-> _npv_annuity(call.annual_value, call.years, call.rate),
               carbon     |-> npv_annuity(call.annual_value, call.years, call.rate)]
    /\ UNCHANGED <<call, sysvars>>

SpecNpv == InitNpv /\ [][NpvReturns]_vars

NpvReturned == ret # NoRet /\ call.fn = "npv_annuity"

\* C8: at discount rate 0 both annuity functions return annual_value * years;
\* for annual_value <= 0 or years <= 0 both return 0; and on every input the
\* two return the same value.
C8_AnnuityNpv ==
    NpvReturned =>
        /\ ret.aggregator = ret.carbon
        /\ (call.annual_value <= 0 \/ call.years <= 0) => ret.aggregator = 0
        /\ (call.rate = 0 /\ call.annual_value > 0 /\ call.years > 0)
               => ret.carbon = call.annual_value * call.years

\* rate 0 with a positive stream over 25 years
C8_Witness ==
    /\ NpvReturned
    /\ call.rate = 0 /\ call.annual_value = 1000 /\ call.years = 25
    /\ ret.aggregator = 25000 /\ ret.carbon = 25000

(***************************************************************************)
(* aggregate_analysis on its own                                           *)
(***************************************************************************)
AggAreas == {100, 1000, 10000}

\* flood results (a run_flood_analysis result carries more fields; these are
\* the ones aggregate_analysis reads), one without its flood_risk_score, and
\* an empty dict
AggFloodData ==
    { [flood_risk_score |-> 0, delta_runoff_mm |-> 0,
       annual_damage_avoided_inr_per_m2 |-> 0],
      [flood_risk_score |-> 3500, delta_runoff_mm |-> 350,
       annual_damage_avoided_inr_per_m2 |-> 52500],
      [flood_risk_score |-> 10000, delta_runoff_mm |-> 1200,
       annual_damage_avoided_inr_per_m2 |-> 180000],
      [delta_runoff_mm |-> 350, annual_damage_avoided_inr_per_m2 |-> 52500],
      <<>> }

\* solar results: the zero-panel result, a small and a large profitable
\* plant, a plant under poor irradiance, and an empty dict
AggSolarData ==
    { [avg_daily_ghi_kwh_m2 |-> 5200, panel_count |-> 0, npv_25yr_inr |-> 0],
      [panel_count |-> 4, npv_25yr_inr |-> 514],
      [panel_count |-> 4062, npv_25yr_inr |-> 5000000],
      [panel_count |-> 4062, npv_25yr_inr |-> -75700000],
      <<>> }

AggCarbonData ==
    { [npv_30yr_inr |-> 120000, stored_carbon_value_inr |-> 800000,
       annual_credit_revenue_inr |-> 9000],
      [npv_30yr_inr |-> 6000000, stored_carbon_value_inr |-> 40000000,
       annual_credit_revenue_inr |-> 450000],
      <<>> }

\* user_intent: the six known intents, a capitalised one, an unknown one, none
Intents ==
    {"housing", "industry", "solar", "agriculture", "preserve", "mixed",
     "Housing", "resort", ""}

InitAgg ==
    /\ SysOff
    /\ ret = NoRet
    /\ call \in [fn : {"aggregate_analysis"}, area_m2 : AggAreas,
                 flood_data : AggFloodData, solar_data : AggSolarData,
                 carbon_data : AggCarbonData, user_intent : Intents]

AggReturns ==
    /\ call.fn = "aggregate_analysis"
    /\ ret = NoRet
    /\ ret' = aggregate_analysis(call.area_m2, call.flood_data, call.solar_data,
                                 call.carbon_data, call.user_intent)
    /\ UNCHANGED <<call, sysvars>>

SpecAgg == InitAgg /\ [][AggReturns]_vars

AggReturned == ret # NoRet /\ call.fn = "aggregate_analysis"

\* C1: for every combination of flood, solar and carbon results, with the
\* flood risk score in [0, 1], the composite_score returned by
\* aggregate_analysis lies in [0, 100].
C1_CompositeScoreInRange ==
    (AggReturned /\ Get(call.flood_data, "flood_risk_score", 5000) \in 0..10000)
        => (0 <= ret.composite_score /\ ret.composite_score <= 1000)

(***************************************************************************)
(* run_carbon_analysis on its own                                          *)
(***************************************************************************)
\* the two regression cases of carbon_engine.py, weights in percent
SAMPLE_CASES ==
    { [area_m2 |-> 500000,
       distribution |-> [forest |-> 85, wetland |-> 10, water |-> 5],
       years |-> 30,
       expected_stored_co2_approx |-> 27974, expected_annual_co2_approx |-> 999],
      [area_m2 |-> 2000000,
       distribution |-> [agriculture |-> 70, open_land |-> 20, urban |-> 10],
       years |-> 20,
       expected_stored_co2_approx |-> 14520, expected_annual_co2_approx |-> 227] }

\* distributions handed to run_carbon_analysis: the classified ones, one
\* summing to 0.5, one to 0.99, an all-zero one, an empty one, and three that
\* name a category the tables do not have
CarbonDistributions ==
    Distributions \cup
    { [forest |-> 30, water |-> 20],
      [forest |-> 99],
      [forest |-> 0],
      <<>>,
      [forest |-> 50, desert |-> 50],
      [forest |-> 40, desert |-> 40],
      [desert |-> 100] }

CarbonAreas == {0, 1000, 50000}

\* <<area_m2, distribution, years>>
CarbonInputs ==
    (CarbonAreas \X CarbonDistributions \X {20, DEFAULT_YEARS})
        \cup { <<c.area_m2, c.distribution, c.years>> : c \in SAMPLE_CASES }

CarbonFxResponses ==
    { [kind |-> "ok", rates |-> [INR |-> 8437]],
      [kind |-> "ok", rates |-> [EUR |-> 92]],
      [kind |-> "timeout"] }

InitCarbon ==
    /\ SysOff
    /\ ret = NoRet
    /\ \E i \in CarbonInputs, fx \in CarbonFxResponses :
           call = [fn |-> "run_carbon_analysis", area_m2 |-> i[1],
                   distribution |-> i[2], years |-> i[3], fx |-> fx]

CarbonReturns ==
    /\ call.fn = "run_carbon_analysis"
    /\ ret = NoRet
    /\ ret' = run_carbon_analysis(call.fx, call.area_m2, call.distribution,
                                  call.years, DEFAULT_DISCOUNT)
    /\ UNCHANGED <<call, sysvars>>

SpecCarbon == InitCarbon /\ [][CarbonReturns]_vars

CarbonReturned == ret # NoRet /\ call.fn = "run_carbon_analysis"

\* the sum of the weights in w
WeightSum(w) == WeightedSum(w, [k \in DOMAIN w |-> 1], DOMAIN w)

\* C11: the category weights run_carbon_analysis accounts with (after the
\* renormalisation and after unknown categories are dropped) are all
\* non-negative and sum to 1 within 0.01, for every input distribution,
\* one with an unrecognised category included.
C11_AccountedWeightsSumToOne ==
    CarbonReturned =>
        LET dist == carbon_distribution(call.distribution)
        IN  /\ ret.inputs.distribution = dist.w
            /\ \A k \in DOMAIN dist.w : dist.w[k] >= 0
            /\ Abs(100 * WeightSum(dist.w) - 100 * dist.denom) <= dist.denom

AmtNorm(w, f) == <<w + f \div 1000000, f % 1000000>>

AmtAdd(x, y) == AmtNorm(x[1] + y[1], x[2] + y[2])

AmtSub(x, y) == AmtNorm(x[1] - y[1], x[2] - y[2])

\* x * k for x >= 0 and an integer k >= 0
AmtTimes(x, k) ==
    <<x[1] * k + MulQR(x[2], k, 1000000)[1], MulQR(x[2], k, 1000000)[2]>>

\* x / 100 for an x of at most four decimals
AmtDiv100(x) == <<x[1] \div 100, ((x[1] % 100) * 1000000 + x[2]) \div 100>>

\* round(x, 2) replaced by a truncation to whole units
AmtRound0(x) == <<x[1], 0>>

\* round(x, 2), ties to even
AmtRound2(x) ==
    AmtNorm(x[1],
            10000 * (IF x[2] % 10000 > 5000
                        \/ (x[2] % 10000 = 5000 /\ (x[2] \div 10000) % 2 = 1)
                     THEN x[2] \div 10000 + 1 ELSE x[2] \div 10000))

\* x > 0
AmtPositive(x) == x[1] > 0 \/ (x[1] = 0 /\ x[2] > 0)

\* round(n / g * 100, 1) in tenths of a percent for g > 0, computed in
\* rupees, thousandths or millionths, whichever is the finest unit in which
\* both amounts fit 32 bits
AmtPct(n, g) ==
    IF Max(Abs(n[1]), g[1]) >= 2000000 THEN RoundMulDiv(n[1], 1000, g[1])
    ELSE IF Max(Abs(n[1]), g[1]) >= 2000
    THEN RoundMulDiv(n[1] * 1000 + n[2] \div 1000, 1000,
                     g[1] * 1000 + g[2] \div 1000)
    ELSE RoundMulDiv(n[1] * 1000000 + n[2], 1000, g[1] * 1000000 + g[2])

\* |x - y| <= tol millionths, tol < 1000000
AmtWithin(x, y, tol) ==
    \/ AmtSub(x, y)[1] = 0 /\ AmtSub(x, y)[2] <= tol
    \/ AmtSub(x, y)[1] = -1 /\ AmtSub(x, y)[2] >= 1000000 - tol

flood_mit_cost_of_inclusive(area_m2, delta_x100, risk) ==
    IF risk >= 3500
    THEN AmtDiv100(AmtDiv100(AmtTimes(area_m2,
             delta_x100 * (DRAINAGE_COST_INR_M3_RUNOFF \div 10))))
    ELSE <<0, 0>>

\* step 5: the drainage investment, for an area as an amount and a runoff
\* depth in hundredths of a mm:
\* (delta_mm / 1000) * area_m2 * 120 = area_m2 * (delta_x100 * 12) / 10000
flood_mit_cost_of(area_m2, delta_x100, risk) ==
    IF risk > 3500
    THEN AmtDiv100(AmtDiv100(AmtTimes(area_m2,
             delta_x100 * (DRAINAGE_COST_INR_M3_RUNOFF \div 10))))
    ELSE <<0, 0>>

pct_if_nonzero(net_profit, denominator) ==
    IF denominator = <<0, 0>> THEN 0
    ELSE IF AmtPositive(denominator) THEN AmtPct(net_profit, denominator)
    ELSE AmtPct(AmtSub(<<0, 0>>, net_profit), AmtSub(<<0, 0>>, denominator))

\* step 7: (net_profit / denominator * 100) if denominator > 0 else 0.0
pct_if_positive(net_profit, denominator) ==
    IF AmtPositive(denominator) THEN AmtPct(net_profit, denominator) ELSE 0

\* _development_cost_breakdown with the area in hundredths of a m2, the runoff
\* depth in hundredths of a mm, the risk score in 1e-4; every amount is
\* computed exactly and reported rounded to two decimals, as the function
\* rounds it
development_cost_breakdown_reported(area_x100, intent, delta_x100, risk) ==
    LET intent_key   == intent_key_of(intent)
        area_m2      == <<area_x100 \div 100, (area_x100 % 100) * 10000>>
        land_cost    == AmtTimes(area_m2, LAND_COST_INR_M2[intent_key])
        built_up_m2  == AmtDiv100(AmtTimes(area_m2, FSI[intent_key]))
        construction == AmtTimes(built_up_m2, CONSTRUCTION_COST_INR_M2[intent_key])
        infra        == AmtTimes(AmtDiv100(construction), INFRA_OVERHEADS[intent_key])
        flood_mit_cost == flood_mit_cost_of(area_m2, delta_x100, risk)
        total_cost    == AmtAdd(AmtAdd(land_cost, construction),
                                AmtAdd(infra, flood_mit_cost))
        gross_revenue == AmtTimes(built_up_m2, SALE_PRICE_INR_M2[intent_key])
        net_profit    == AmtSub(gross_revenue, total_cost)
    IN  [land_acquisition_cost_inr |-> AmtRound2(land_cost),
         built_up_area_m2          |-> AmtRound2(built_up_m2),
         construction_cost_inr     |-> AmtRound2(construction),
         infrastructure_cost_inr   |-> AmtRound2(infra),
         flood_mitigation_cost_inr |-> AmtRound2(flood_mit_cost),
         total_project_cost_inr    |-> AmtRound2(total_cost),
         gross_revenue_inr         |-> AmtRound2(gross_revenue),
         net_profit_inr            |-> AmtRound2(net_profit),
         profit_margin_pct |-> pct_if_positive(net_profit, gross_revenue),
         roi_pct           |-> pct_if_positive(net_profit, total_cost)]

\* areas in hundredths of a m2: -100, none, 0.34, 750.94, 1298.86 and
\* 10000 m2 (the request's area_m2 is any float)
CostAreas == {-10000, 0, 34, 75094, 129886, 1000000}

\* additional runoff in hundredths of a mm
CostDeltas == {0, 1234, 7779}

\* flood risk scores in 1e-4, on both sides of the 0.35 threshold
CostRisks == {2000, 3500, 3501, 9000}

InitCost ==
    /\ SysOff
    /\ ret = NoRet
    /\ call \in [fn : {"_development_cost_breakdown"}, area_x100 : CostAreas,
                 intent : Intents, flood_runoff_delta_x100 : CostDeltas,
                 flood_risk_score : CostRisks]

CostReturns ==
    /\ call.fn = "_development_cost_breakdown"
    /\ ret = NoRet
    /\ ret' = development_cost_breakdown_reported(call.area_x100, call.intent,
                  call.flood_runoff_delta_x100, call.flood_risk_score)
    /\ UNCHANGED <<call, sysvars>>

SpecCost == InitCost /\ [][CostReturns]_vars

CostReturned == ret # NoRet /\ call.fn = "_development_cost_breakdown"

\* C13 as stated: on the reported fields built_up_area = area * FSI(intent),
\* total cost = land + construction + infrastructure + flood mitigation and
\* net_profit = gross_revenue - total cost hold exactly, for every area,
\* intent and flood input.
C13_IdentitiesExactOnReportedFields ==
    CostReturned =>
        /\ ret.built_up_area_m2
               = AmtDiv100(AmtTimes(<<call.area_x100 \div 100,
                                      (call.area_x100 % 100) * 10000>>,
                                    FSI[intent_key_of(call.intent)]))
        /\ ret.total_project_cost_inr
               = AmtAdd(AmtAdd(ret.land_acquisition_cost_inr,
                               ret.construction_cost_inr),
                        AmtAdd(ret.infrastructure_cost_inr,
                               ret.flood_mitigation_cost_inr))
        /\ ret.net_profit_inr
               = AmtSub(ret.gross_revenue_inr, ret.total_project_cost_inr)

\* C13 amended: every reported field is its amount rounded to two decimals,
\* so on the reported fields the identities hold to the rounding: built_up_area
\* is within 0.005 of area * FSI(intent), total cost within 0.02 of the sum
\* of the four reported costs, net_profit within 0.01 of reported gross
\* revenue minus reported total cost; for housing on 10,000 m2 the built-up
\* area is exactly 15,000 m2.
C13_IdentitiesToTheRounding ==
    CostReturned =>
        /\ AmtWithin(ret.built_up_area_m2,
                     AmtDiv100(AmtTimes(<<call.area_x100 \div 100,
                                          (call.area_x100 % 100) * 10000>>,
                                        FSI[intent_key_of(call.intent)])),
                     5000)
        /\ AmtWithin(ret.total_project_cost_inr,
                     AmtAdd(AmtAdd(ret.land_acquisition_cost_inr,
                                   ret.construction_cost_inr),
                            AmtAdd(ret.infrastructure_cost_inr,
                                   ret.flood_mitigation_cost_inr)),
                     20000)
        /\ AmtWithin(ret.net_profit_inr,
                     AmtSub(ret.gross_revenue_inr, ret.total_project_cost_inr),
                     10000)
        /\ (call.area_x100 = 1000000 /\ call.intent = "housing")
               => ret.built_up_area_m2 = <<15000, 0>>

\* preserve on 750.94 m2 with 77.79 mm of additional runoff at high risk: the
\* reported total 158774.85 is one paisa more than the reported costs add
\* up to
C13_Witness ==
    /\ CostReturned
    /\ call.area_x100 = 75094 /\ call.intent = "preserve"
    /\ call.flood_runoff_delta_x100 = 7779 /\ call.flood_risk_score = 9000
    /\ ret.total_project_cost_inr = <<158774, 850000>>
    /\ AmtAdd(AmtAdd(ret.land_acquisition_cost_inr, ret.construction_cost_inr),
              AmtAdd(ret.infrastructure_cost_inr, ret.flood_mitigation_cost_inr))
           = <<158774, 840000>>

\* C15: flood_mitigation_cost is 0 at a flood risk score of 0.35 or below, and
\* above 0.35 it is (delta_runoff_mm / 1000) * area * 120, reported to two
\* decimals; so it is non-zero only when the score is strictly above 0.35.
C15_FloodMitigationThreshold ==
    CostReturned =>
        /\ call.flood_risk_score <= 3500
               => ret.flood_mitigation_cost_inr = <<0, 0>>
        /\ call.flood_risk_score > 3500
               => ret.flood_mitigation_cost_inr
                      = AmtRound2(AmtDiv100(AmtDiv100(
                            AmtTimes(<<call.area_x100 \div 100,
                                       (call.area_x100 % 100) * 10000>>,
                                     call.flood_runoff_delta_x100 * 12))))

\* a score of exactly 0.35 with runoff to drain costs nothing, and the score
\* just above it would: 12.34 mm on 10,000 m2 is 14,808 rupees
C15_Witness ==
    /\ CostReturned
    /\ call.flood_risk_score = 3500
    /\ call.flood_runoff_delta_x100 = 1234 /\ call.area_x100 = 1000000
    /\ ret.flood_mitigation_cost_inr = <<0, 0>>
    /\ flood_mit_cost_of(<<10000, 0>>, 1234, 3501) = <<14808, 0>>

\* C16: profit_margin_pct is 0 whenever gross revenue is <= 0 and roi_pct is 0
\* whenever total project cost is <= 0; both are always returned as numbers
\* (no division by zero).
C16_PercentagesGuarded ==
    CostReturned =>
        /\ ret.profit_margin_pct \in Int /\ ret.roi_pct \in Int
        /\ ~AmtPositive(ret.gross_revenue_inr) => ret.profit_margin_pct = 0
        /\ ~AmtPositive(ret.total_project_cost_inr) => ret.roi_pct = 0

\* solar intent (FSI 0) on 10,000 m2: no revenue, a positive cost, and a
\* margin of 0 next to an ROI of -100 %
C16_Witness ==
    /\ CostReturned
    /\ call.intent = "solar" /\ call.area_x100 = 1000000
    /\ ret.gross_revenue_inr = <<0, 0>>
    /\ AmtPositive(ret.total_project_cost_inr)
    /\ ret.profit_margin_pct = 0 /\ ret.roi_pct = -1000

\* C14: an intent that is none of housing, industry, solar, agriculture,
\* preserve, mixed (compared without regard to case), an empty or missing
\* one included, is costed with the "mixed" row of every table: land cost,
\* FSI, construction cost, sale price and overhead; a known intent in another
\* case is costed with its own row; every intent gets a cost breakdown.
C14_UnknownIntentCostedAsMixed ==
    AggReturned =>
        /\ DOMAIN ret.cost_breakdown # {}
        /\ Lower(call.user_intent) \in DOMAIN LAND_COST_INR_M2
               => ret.cost_breakdown.land_acquisition_cost_inr
                      = call.area_m2 * LAND_COST_INR_M2[Lower(call.user_intent)]
        /\ Lower(call.user_intent) \notin DOMAIN LAND_COST_INR_M2
               => /\ ret.cost_breakdown.land_acquisition_cost_inr
                         = call.area_m2 * 2000
                  /\ ret.cost_breakdown.built_up_area_m2 = call.area_m2 * 200
                  /\ ret.cost_breakdown.construction_cost_inr
                         = call.area_m2 * 2 * 20000
                  /\ ret.cost_breakdown.infrastructure_cost_inr
                         = MulDiv(call.area_m2 * 2 * 20000, 22, 100)
                  /\ ret.cost_breakdown.gross_revenue_inr
                         = call.area_m2 * 2 * 45000

\* "resort" on 1000 m2 is costed as mixed: 2,000,000 for the land, 2000 m2
\* built up, 90,000,000 of revenue
C14_Witness ==
    /\ AggReturned
    /\ call.user_intent = "resort" /\ call.area_m2 = 1000
    /\ ret.cost_breakdown.land_acquisition_cost_inr = 2000000
    /\ ret.cost_breakdown.built_up_area_m2 = 200000
    /\ ret.cost_breakdown.gross_revenue_inr = 90000000

\* C17: with the flood risk held fixed the composite score does not fall
\* when the total environmental NPV or the net profit rises (and does not
\* rise when one of them falls); with both held fixed it does not rise when
\* the flood risk rises (and does not fall when the risk falls).  Each
\* returned score is compared with the score at other environmental NPVs,
\* net profits and risks, the two references and their neighbours included.
C17_CompositeScoreMonotone ==
    AggReturned =>
        LET env    == ret.environmental_npv
            profit == ret.financial_npv
            risk   == Get(call.flood_data, "flood_risk_score", 5000)
        IN  /\ \A e \in {-100000000, -1, 0, 62500, 2500000, 4999999, 5000000,
                         5000001, 100000000, env - 62500, env + 1,
                         env + 62500, env + 1000000} :
                  /\ e >= env => composite_score_of(e, profit, risk) >= ret.composite_score
                  /\ e <= env => composite_score_of(e, profit, risk) <= ret.composite_score
            /\ \A n \in {-100000000, -1, 0, 125000, 25000000, 49999999,
                         50000000, 50000001, 1000000000, profit - 125000,
                         profit + 1, profit + 125000, profit + 10000000} :
                  /\ n >= profit => composite_score_of(env, n, risk) >= ret.composite_score
                  /\ n <= profit => composite_score_of(env, n, risk) <= ret.composite_score
            /\ \A r \in {0, 1, 25, 50, 3499, 3500, 3501, 5000, 7000, 9999, 10000} :
                  /\ r >= risk => composite_score_of(env, profit, r) <= ret.composite_score
                  /\ r <= risk => composite_score_of(env, profit, r) >= ret.composite_score

\* a run at risk 0.35 whose score rises strictly with the environmental NPV
\* and with the net profit and falls strictly with the risk
C17_Witness ==
    /\ AggReturned
    /\ Get(call.flood_data, "flood_risk_score", 5000) = 3500
    /\ ret.environmental_npv < ECO_REF
    /\ ret.financial_npv > 0 /\ ret.financial_npv < FIN_REF
    /\ composite_score_of(ret.environmental_npv + 1000000, ret.financial_npv, 3500)
           > ret.composite_score
    /\ composite_score_of(ret.environmental_npv, ret.financial_npv + 10000000, 3500)
           > ret.composite_score
    /\ composite_score_of(ret.environmental_npv, ret.financial_npv, 7000)
           < ret.composite_score
    /\ composite_score_of(ret.environmental_npv, ret.financial_npv, 0)
           > ret.composite_score

C19_AggregateAlwaysComplete ==
    AggReturned =>
      /\ DOMAIN ret = {"environmental_npv", "financial_npv", "composite_score",
                       "cost_breakdown", "metrics", "scenarios", "indicators"}
      /\ ret.environmental_npv \in Int
      /\ ret.financial_npv \in Int
      /\ ret.composite_score \in Int
      /\ DOMAIN ret.cost_breakdown
             = {"land_acquisition_cost_inr", "built_up_area_m2",
                "construction_cost_inr", "infrastructure_cost_inr",
                "flood_mitigation_cost_inr", "total_project_cost_inr",
                "gross_revenue_inr", "net_profit_inr", "profit_margin_pct",
                "roi_pct"}
      /\ \A k \in DOMAIN ret.cost_breakdown : ret.cost_breakdown[k] \in Int
      /\ DOMAIN ret.metrics
             = {"flood_avoided_npv_inr", "solar_npv_inr", "carbon_npv_inr",
                "annual_flood_value_inr"}
      /\ \A k \in DOMAIN ret.metrics : ret.metrics[k] \in Int
      /\ DOMAIN ret.scenarios
             = {"preserve_npv30_inr", "develop_npv_inr", "hybrid_npv_inr"}
      /\ \A k \in DOMAIN ret.scenarios : ret.scenarios[k] \in Int
      /\ DOMAIN ret.indicators
             = {"is_eco_dominant", "is_high_risk", "is_solar_viable",
                "is_profitable", "roi_pct"}
      /\ \A k \in DOMAIN ret.indicators \ {"roi_pct"} :
             ret.indicators[k] \in BOOLEAN
      /\ ret.indicators.roi_pct \in Int
      /\ DOMAIN call.solar_data = {}
             => ret.metrics.solar_npv_inr = 0 /\ ~ret.indicators.is_solar_viable
      /\ DOMAIN call.carbon_data = {} => ret.metrics.carbon_npv_inr = 0
      /\ DOMAIN call.flood_data = {}
             => /\ ret.metrics.flood_avoided_npv_inr = 0
                /\ ret.cost_breakdown.flood_mitigation_cost_inr = 0
                /\ ~ret.indicators.is_high_risk

\* no intent and three empty objects on 1000 m2: costed as mixed, nothing
\* environmental, a score of 41.4
C19_Witness ==
    /\ AggReturned
    /\ call.user_intent = "" /\ call.area_m2 = 1000
    /\ DOMAIN call.flood_data = {} /\ DOMAIN call.solar_data = {}
    /\ DOMAIN call.carbon_data = {}
    /\ ret.environmental_npv = 0 /\ ret.financial_npv = 39200000
    /\ ret.composite_score = 414
    /\ ret.scenarios = [preserve_npv30_inr |-> 6882, develop_npv_inr |-> 30269534,
                        hybrid_npv_inr |-> 12110565]

\* C27: within one call of aggregate_analysis one and the same flood risk
\* value decides whether flood mitigation is charged (risk > 0.35), gives the
\* risk points of the composite score and sets is_high_risk (risk > 0.7),
\* also for a flood object without a flood_risk_score: there is a value of
\* the risk, the reported one or a default, that the three agree with.
C27_OneRiskValuePerCall ==
    AggReturned =>
        \E risk \in {Get(call.flood_data, "flood_risk_score", 3000),
                     Get(call.flood_data, "flood_risk_score", 5000)} :
            /\ ret.cost_breakdown.flood_mitigation_cost_inr
                   = IF risk > 3500
                     THEN MulDiv(Get(call.flood_data, "delta_runoff_mm", 0) * call.area_m2,
                                 DRAINAGE_COST_INR_M3_RUNOFF, 10000)
                     ELSE 0
            /\ ret.composite_score
                   = composite_score_of(ret.environmental_npv, ret.financial_npv, risk)
            /\ ret.indicators.is_high_risk = (risk > 7000)

\* a new AnalysisResult row added on every run, without the lookup
upsert_analysis_insert(db, row) == Append(db, row)

\* lines 50-63: the project's AnalysisResult row is the first one found; it
\* is overwritten in place, and added when there is none
upsert_analysis(db, row) ==
    IF \E i \in DOMAIN db : db[i].project_id = row.project_id
    THEN [i \in DOMAIN db |->
             IF /\ db[i].project_id = row.project_id
                /\ \A j \in 1..(i - 1) : db[j].project_id # row.project_id
             THEN row ELSE db[i]]
    ELSE Append(db, row)

\* the new Scenario rows added without the delete of line 67
rebuild_scenarios_appending(db, project_id, rows) == db \o rows

\* lines 67 and 107: the project's Scenario rows are deleted and the new
\* ones added
rebuild_scenarios(db, project_id, rows) ==
    SelectSeq(db, LAMBDA s : s.project_id # project_id) \o rows

(***************************************************************************)
(* elevation_engine.py                                                     *)
(*                                                                         *)
(* Elevations are in centimetres, latitudes and longitudes in 1e-6 degree, *)
(* slopes in 1e-2 percent.  The polygons lie on one meridian, so that the  *)
(* horizontal distance of two vertices is their latitude difference.       *)
(***************************************************************************)
METERS_PER_DEG_LAT == 111320

FALLBACK_ELEVATION == 2500      \* 25.0 m

\* polygons of 1, 2, 3, 12 and 25 vertices 100e-6 degree apart, and one of
\* two equal vertices
ElevPolygons ==
    { [i \in 1..n |-> [lat |-> 12000000 + 100 * i, lng |-> 77000000]] :
          n \in {1, 2, 3, 12, 25} }
    \cup { <<[lat |-> 12000000, lng |-> 77000000], [lat |-> 12000000, lng |-> 77000000]>> }

\* what the elevation service can answer: a body with results (none, or one
\* elevation per location asked), a JSON body without results (an error
\* body), a body that is no JSON, a timeout, a transport error
ElevResponses ==
    { [kind |-> "ok", results |-> <<>>],
      [kind |-> "ok", results |-> [i \in 1..10 |-> 92000]],
      [kind |-> "ok", results |-> [i \in 1..10 |-> 1000 + 25 * i * i]],
      [kind |-> "ok", results |-> [i \in 1..10 |-> 30000 - 1500 * i]],
      [kind |-> "ok", results |-> [i \in 1..10 |-> IF i % 2 = 0 THEN 5000 ELSE -120]] }
    \cup { [kind |-> k] : k \in {"error_body", "unparsable", "timeout", "transport"} }

\* lines 20-27: the elevations of the results of the body, one per location
\* when the service answers all of them; [25.0] * len(points) on an exception
get_elevation_for_points(points, resp) ==
    IF resp.kind \in {"unparsable", "timeout", "transport"}
    THEN [i \in 1..Len(points) |-> FALLBACK_ELEVATION]
    ELSE IF resp.kind = "error_body" THEN <<>>
    ELSE SubSeq(resp.results, 1, Min(Len(resp.results), Len(points)))

\* lines 35-48: the mean of the slopes between consecutive points more than
\* a metre apart, 1.5 when there are none
compute_slope_pct(elevations, lats, lngs) ==
    LET apart == {i \in 1..(Len(elevations) - 1) :
                     Abs(lats[i + 1] - lats[i]) * METERS_PER_DEG_LAT > 1000000}
    IN  IF Len(elevations) < 2 \/ apart = {} THEN 150
        ELSE RoundHalfEven(
                 SumSeq([i \in 1..(Len(elevations) - 1) |->
                     IF i \in apart
                     THEN MulDiv(Abs(elevations[i + 1] - elevations[i]) * 10000, 1000000,
                                 Abs(lats[i + 1] - lats[i]) * METERS_PER_DEG_LAT)
                     ELSE 0]),
                 Cardinality(apart) * 100)

\* lines 57-82: up to ten vertices are sampled, their elevations fetched,
\* and the mean elevation, the slope and the terrain type returned; the
\* mean of no elevations divides by zero
get_elevation_data(polygon, resp) ==
    LET step    == Max(1, Len(polygon) \div 10)
        sampled == [i \in 1..Min(10, (Len(polygon) - 1) \div step + 1) |->
                        polygon[1 + (i - 1) * step]]
        elevations == get_elevation_for_points(sampled, resp)
        slope_pct  == compute_slope_pct(elevations,
                          [i \in DOMAIN sampled |-> sampled[i].lat],
                          [i \in DOMAIN sampled |-> sampled[i].lng])
    IN  IF Len(elevations) = 0 THEN [raised |-> "ZeroDivisionError"]
        ELSE [mean_elevation |-> RoundHalfEven(SumSeq(elevations), Len(elevations)),
              slope_pct      |-> slope_pct,
              terrain_type   |-> IF slope_pct < 200 THEN "Flat"
                                 ELSE IF slope_pct < 800 THEN "Gentle Slope"
                                 ELSE IF slope_pct < 2000 THEN "Hilly"
                                 ELSE "Mountainous",
              sample_points  |-> Len(sampled),
              min_elevation  |-> CHOOSE e \in {elevations[i] : i \in DOMAIN elevations} :
                                     \A i \in DOMAIN elevations : e <= elevations[i],
              max_elevation  |-> CHOOSE e \in {elevations[i] : i \in DOMAIN elevations} :
                                     \A i \in DOMAIN elevations : e >= elevations[i]]

InitElev ==
    /\ SysOff
    /\ ret = NoRet
    /\ call \in [fn : {"get_elevation_data"}, polygon : ElevPolygons,
                 resp : ElevResponses]

ElevReturns ==
    /\ call.fn = "get_elevation_data"
    /\ ret = NoRet
    /\ ret' = get_elevation_data(call.polygon, call.resp)
    /\ UNCHANGED <<call, sysvars>>

SpecElev == InitElev /\ [][ElevReturns]_vars

\* C26: whenever the elevation service times out, fails in transport,
\* answers with an error body or answers with no results, get_elevation_data
\* returns (raises nothing) a mean elevation and a slope, the mean being the
\* fallback elevation of 25 m that stands for every sampled point.
C26_ElevationFailureNeverSurfaces ==
    ( /\ ret # NoRet /\ call.fn = "get_elevation_data"
      /\ \/ call.resp.kind \in {"timeout", "transport", "error_body"}
         \/ call.resp.kind = "ok" /\ call.resp.results = <<>> )
    => /\ "raised" \notin DOMAIN ret
       /\ ret.mean_elevation = FALLBACK_ELEVATION
       /\ ret.min_elevation = FALLBACK_ELEVATION
       /\ ret.max_elevation = FALLBACK_ELEVATION
       /\ ret.slope_pct \in {0, 150}

(***************************************************************************)
(* The handlers: concurrent requests of POST /analysis/run/{project_id},   *)
(* GET /analysis/results/{project_id} and POST /ai/recommend/{project_id}  *)
(***************************************************************************)
\* fetched[r].solar tallies the outcomes of the irradiance fetches of r
NoSolarFetches == [ok |-> 0, failed |-> 0, incomplete_body |-> 0]

SolarFetchesDone(r) ==
    fetched[r].solar.ok + fetched[r].solar.failed + fetched[r].solar.incomplete_body

\* raise HTTPException(status_code=..., detail=...)
HTTPException(status_code, detail) == [status_code |-> status_code, detail |-> detail]

\* the project looked up by its id alone, whoever owns it
find_project_any_owner(proj, project_id, user_id) == proj.id = project_id

\* db.query(LandProject).filter(LandProject.id == project_id,
\* LandProject.user_id == current_user.id).first() finds a row
find_project(proj, project_id, user_id) ==
    proj.id = project_id /\ proj.user_id = user_id

\* the tables analysis_results and scenarios when the server starts: empty,
\* or as an earlier run for the project whose fetches all timed out left them
PersistedBefore(proj) ==
    {[analysis |-> <<>>, scenarios |-> <<>>]} \cup
    UNION { { [analysis |-> <<analysis_row(proj, res, agg)>>,
               scenarios |-> scenario_rows(proj, res, agg)] :
              agg \in {aggregate_analysis(proj.area_m2, res.flood, res.solar,
                                          res.carbon, proj.user_intent)} } :
            res \in {[flood |-> run_flood_analysis([kind |-> "timeout"],
                                    [kind |-> "timeout"], proj.land_distribution_json,
                                    proj.elevation_m, proj.slope_pct),
                      solar |-> solar_from_weather(NoWeather, proj.area_m2,
                                    proj.land_distribution_json, "last_guess"),
                      carbon |-> run_carbon_analysis([kind |-> "timeout"],
                                    proj.area_m2, proj.land_distribution_json,
                                    DEFAULT_YEARS, DEFAULT_DISCOUNT)]} }

\* what the language model's service can make get_ai_recommendation return
AiResponses ==
    {"advisory report", "AI provider returned an empty response. Please try again."}

\* a new AIRecommendation row added on every request, without the lookup
upsert_recommendation_insert(db, project_id, recommendation_text) ==
    Append(db, [project_id |-> project_id,
                recommendation_text |-> recommendation_text,
                model_used |-> "llama-3.3-70b-versatile"])

\* routers/ai.py lines 79-91: the project's AIRecommendation row is the first
\* one found, added when there is none; its text and model are set
upsert_recommendation(db, project_id, recommendation_text) ==
    IF \E i \in DOMAIN db : db[i].project_id = project_id
    THEN [i \in DOMAIN db |->
             IF /\ db[i].project_id = project_id
                /\ \A j \in 1..(i - 1) : db[j].project_id # project_id
             THEN [db[i] EXCEPT !.recommendation_text = recommendation_text,
                                !.model_used = "llama-3.3-70b-versatile"]
             ELSE db[i]]
    ELSE Append(db, [project_id |-> project_id,
                     recommendation_text |-> recommendation_text,
                     model_used |-> "llama-3.3-70b-versatile"])

Init ==
    /\ call = [fn |-> "run_full_analysis"] /\ ret = NoRet
    /\ project \in Parcels
    /\ pc = [r \in Runs |-> "idle"]
    /\ req = [r \in Runs |-> <<>>]
    /\ started = [r \in Runs |-> {}]
    /\ finished = [r \in Runs |-> {}]
    /\ fetched = [r \in Runs |-> [flood |-> <<>>, solar |-> NoSolarFetches,
                                   carbon |-> <<>>]]
    /\ solar_acc = [r \in Runs |-> NoWeather]
    /\ results = [r \in Runs |-> <<>>]
    /\ agg_in = [r \in Runs |-> <<>>]
    /\ full_agg = [r \in Runs |-> <<>>]
    /\ \E persisted \in PersistedBefore(project) :
          /\ db_analysis = persisted.analysis
          /\ db_scenarios = persisted.scenarios
    /\ db_recommendation = <<>>
    /\ response = [r \in Runs |-> <<>>]

\* lines 15-29: the request arrives, the project is looked up, and
\* run_flood_analysis is entered up to its fetch
Request(r) ==
    /\ pc[r] = "idle"
    /\ \E project_id \in ProjectIds, user \in Users :
          /\ req' = [req EXCEPT ![r] = [route |-> "/analysis/run",
                                        project_id |-> project_id, user_id |-> user]]
          /\ IF find_project(project, project_id, user)
             THEN /\ pc' = [pc EXCEPT ![r] = "flood_fetch"]
                  /\ started' = [started EXCEPT ![r] = {"flood"}]
                  /\ UNCHANGED response
             ELSE /\ pc' = [pc EXCEPT ![r] = "http_404"]
                  /\ response' = [response EXCEPT ![r] =
                                      HTTPException(404, "Project not found")]
                  /\ UNCHANGED started
    /\ UNCHANGED <<call, ret, project, finished, fetched, solar_acc, results,
                   agg_in, full_agg, db_analysis, db_scenarios, db_recommendation>>

\* the two rainfall fetches come back: run_flood_analysis returns flood_res,
\* and run_solar_analysis is entered up to its first fetch (lines 29-34)
FloodFetchReturns(r) ==
    /\ pc[r] = "flood_fetch"
    /\ \E m \in SysMonthlyResponses, d \in SysDailyResponses :
          /\ results' = [results EXCEPT ![r] =
                 [flood |-> run_flood_analysis(m, d, project.land_distribution_json,
                                               project.elevation_m, project.slope_pct)]]
          /\ fetched' = [fetched EXCEPT ![r].flood = <<flood_fetch_outcome(m, d)>>]
    /\ finished' = [finished EXCEPT ![r] = @ \cup {"flood"}]
    /\ started' = [started EXCEPT ![r] = @ \cup {"solar"}]
    /\ pc' = [pc EXCEPT ![r] = "solar_fetch"]
    /\ UNCHANGED <<call, ret, project, req, solar_acc, agg_in, full_agg,
                   db_analysis, db_scenarios, db_recommendation, response>>

\* one of the first three yearly irradiance fetches comes back and the next
\* is sent; an exception raised by the loop leaves the handler (HTTP 500)
SolarFetchReturns(r) ==
    /\ pc[r] = "solar_fetch"
    /\ SolarFetchesDone(r) + 1 < SOLAR_YEARS
    /\ \E resp \in SysSolarResponses :
       \E acc \in {solar_weather_accumulate(solar_acc[r], resp)} :
          /\ fetched' = [fetched EXCEPT ![r].solar[solar_fetch_outcome(resp)] = @ + 1]
          /\ solar_acc' = [solar_acc EXCEPT ![r] = acc]
          /\ pc' = [pc EXCEPT ![r] =
                       IF "raised" \in DOMAIN acc THEN "http_500" ELSE "solar_fetch"]
          /\ response' = [response EXCEPT ![r] =
                              IF "raised" \in DOMAIN acc
                              THEN HTTPException(500, "Internal Server Error") ELSE @]
    /\ UNCHANGED <<call, ret, project, req, started, finished, results, agg_in,
                   full_agg, db_analysis, db_scenarios, db_recommendation>>

\* the fourth irradiance fetch comes back: run_solar_analysis computes and
\* returns solar_res, and run_carbon_analysis is entered up to its fetch
\* (lines 34-39); an exception raised on the way leaves the handler
SolarLastFetchReturns(r) ==
    /\ pc[r] = "solar_fetch"
    /\ SolarFetchesDone(r) + 1 = SOLAR_YEARS
    /\ \E resp \in SysSolarResponses, runaway \in IrrRunaways :
       \E acc \in {solar_weather_accumulate(solar_acc[r], resp)} :
       \E solar_res \in {solar_from_weather(acc, project.area_m2,
                             project.land_distribution_json, runaway)} :
          /\ fetched' = [fetched EXCEPT ![r].solar[solar_fetch_outcome(resp)] = @ + 1]
          /\ solar_acc' = [solar_acc EXCEPT ![r] = acc]
          /\ IF "raised" \in DOMAIN solar_res
             THEN /\ pc' = [pc EXCEPT ![r] = "http_500"]
                  /\ response' = [response EXCEPT ![r] =
                                      HTTPException(500, "Internal Server Error")]
                  /\ UNCHANGED <<results, finished, started>>
             ELSE /\ results' = [results EXCEPT ![r] = @ @@ [solar |-> solar_res]]
                  /\ finished' = [finished EXCEPT ![r] = @ \cup {"solar"}]
                  /\ started' = [started EXCEPT ![r] = @ \cup {"carbon"}]
                  /\ pc' = [pc EXCEPT ![r] = "fx_fetch"]
                  /\ UNCHANGED response
    /\ UNCHANGED <<call, ret, project, req, agg_in, full_agg, db_analysis,
                   db_scenarios, db_recommendation>>

\* the exchange-rate fetch comes back: run_carbon_analysis returns
\* carbon_res, aggregate_analysis runs, the AnalysisResult row is upserted,
\* the project's Scenario rows are replaced, and the session commits
\* (lines 39-116)
FxFetchReturns(r) ==
    /\ pc[r] = "fx_fetch"
    /\ \E fx \in SysFxResponses :
       \E carbon_res \in {run_carbon_analysis(fx, project.area_m2,
                              project.land_distribution_json,
                              DEFAULT_YEARS, DEFAULT_DISCOUNT)} :
       \E res \in {results[r] @@ [carbon |-> carbon_res]} :
       \E args \in {aggregate_arguments(project, res)} :
       \E agg \in {aggregate_analysis(args.area_m2, args.flood_data,
                       args.solar_data, args.carbon_data, args.user_intent)} :
          /\ fetched' = [fetched EXCEPT ![r].carbon = <<fx_fetch_outcome(fx)>>]
          /\ results' = [results EXCEPT ![r] = res]
          /\ agg_in' = [agg_in EXCEPT ![r] = args]
          /\ full_agg' = [full_agg EXCEPT ![r] = agg]
          /\ db_analysis' = upsert_analysis(db_analysis, analysis_row(project, res, agg))
          /\ db_scenarios' = rebuild_scenarios(db_scenarios, project.id,
                                               scenario_rows(project, res, agg))
    /\ finished' = [finished EXCEPT ![r] = @ \cup {"carbon"}]
    /\ pc' = [pc EXCEPT ![r] = "done"]
    /\ response' = [response EXCEPT ![r] =
                        [status_code |-> 200, project_id |-> project.id]]
    /\ UNCHANGED <<call, ret, project, req, started, solar_acc, db_recommendation>>

\* routers/aggregator.py lines 119-136, GET /analysis/results/{project_id}:
\* the project is looked up, then its AnalysisResult row and Scenario rows
\* are read and returned
get_analysis_results(r) ==
    /\ pc[r] = "idle"
    /\ \E project_id \in ProjectIds, user \in Users :
          /\ req' = [req EXCEPT ![r] = [route |-> "/analysis/results",
                                        project_id |-> project_id, user_id |-> user]]
          /\ IF find_project(project, project_id, user)
             THEN /\ pc' = [pc EXCEPT ![r] = "results_sent"]
                  /\ response' = [response EXCEPT ![r] =
                        [status_code |-> 200,
                         analysis |-> SelectSeq(db_analysis,
                                          LAMBDA a : a.project_id = project_id),
                         scenarios |-> SelectSeq(db_scenarios,
                                          LAMBDA s : s.project_id = project_id)]]
             ELSE /\ pc' = [pc EXCEPT ![r] = "http_404"]
                  /\ response' = [response EXCEPT ![r] =
                                      HTTPException(404, "Project not found")]
    /\ UNCHANGED <<call, ret, project, started, finished, fetched, solar_acc,
                   results, agg_in, full_agg, db_analysis, db_scenarios,
                   db_recommendation>>

\* routers/ai.py lines 13-76, POST /ai/recommend/{project_id}: the project
\* and its persisted analysis are looked up, aggregate_analysis is run
\* again on the persisted engine outputs, and get_ai_recommendation is
\* entered up to its call of the language model
recommend(r) ==
    /\ pc[r] = "idle"
    /\ \E project_id \in ProjectIds, user \in Users :
          /\ req' = [req EXCEPT ![r] = [route |-> "/ai/recommend",
                                        project_id |-> project_id, user_id |-> user]]
          /\ IF ~find_project(project, project_id, user)
             THEN /\ pc' = [pc EXCEPT ![r] = "http_404"]
                  /\ response' = [response EXCEPT ![r] =
                                      HTTPException(404, "Project not found")]
             ELSE IF \A i \in DOMAIN db_analysis :
                         db_analysis[i].project_id # project_id
             THEN /\ pc' = [pc EXCEPT ![r] = "http_400"]
                  /\ response' = [response EXCEPT ![r] = HTTPException(400,
                        "Analysis not yet available. Please run /analysis/run first.")]
             ELSE \E analysis \in {SelectSeq(db_analysis,
                                       LAMBDA a : a.project_id = project_id)[1]} :
                  \E agg \in {aggregate_analysis(project.area_m2,
                                  analysis.flood_json, analysis.solar_json,
                                  analysis.carbon_json, project.user_intent)} :
                  IF "raised" \in DOMAIN agg
                  THEN /\ pc' = [pc EXCEPT ![r] = "http_500"]
                       /\ response' = [response EXCEPT ![r] =
                                  HTTPException(500, "Internal Server Error")]
                  ELSE /\ pc' = [pc EXCEPT ![r] = "ai_fetch"]
                       /\ UNCHANGED response
    /\ UNCHANGED <<call, ret, project, started, finished, fetched, solar_acc,
                   results, agg_in, full_agg, db_analysis, db_scenarios,
                   db_recommendation>>

\* routers/ai.py lines 76-93: get_ai_recommendation returns its text, the
\* project's AIRecommendation row is upserted and the session commits
AiReturns(r) ==
    /\ pc[r] = "ai_fetch"
    /\ \E recommendation_text \in AiResponses :
          /\ db_recommendation' = upsert_recommendation(db_recommendation,
                                      req[r].project_id, recommendation_text)
          /\ response' = [response EXCEPT ![r] =
                 [status_code |-> 200, recommendation |-> recommendation_text]]
    /\ pc' = [pc EXCEPT ![r] = "recommended"]
    /\ UNCHANGED <<call, ret, project, req, started, finished, fetched, solar_acc,
                   results, agg_in, full_agg, db_analysis, db_scenarios>>

Next ==
    \E r \in Runs :
        \/ Request(r)
        \/ FloodFetchReturns(r)
        \/ SolarFetchReturns(r)
        \/ SolarLastFetchReturns(r)
        \/ FxFetchReturns(r)
        \/ get_analysis_results(r)
        \/ recommend(r)
        \/ AiReturns(r)

Spec == Init /\ [][Next]_vars

\* C2: in a run the flood, solar and carbon engines are dispatched
\* concurrently: all three have been started before any one of them has run
\* to completion.
C2_AllStartedBeforeAnyCompletes ==
    \A r \in Runs : finished[r] # {} => started[r] = Engines

\* C3: aggregate_analysis starts only after the three engines of the same run
\* have completed, and it is called with exactly the results they returned in
\* that run.
C3_AggregateAfterAllThree ==
    \A r \in Runs :
        agg_in[r] # <<>> =>
            /\ finished[r] = Engines
            /\ agg_in[r].flood_data = results[r].flood
            /\ agg_in[r].solar_data = results[r].solar
            /\ agg_in[r].carbon_data = results[r].carbon
            /\ full_agg[r] = aggregate_analysis(project.area_m2, results[r].flood,
                                 results[r].solar, results[r].carbon,
                                 project.user_intent)

\* two runs aggregated, fed by different exchange rates
C3_Witness ==
    /\ pc[1] = "done" /\ pc[2] = "done"
    /\ agg_in[1] # <<>> /\ agg_in[2] # <<>>
    /\ agg_in[1].carbon_data # agg_in[2].carbon_data

\* C4: no failed fetch (timeout, transport error, unparsable or incomplete
\* body) makes an engine raise: a run leaves with an exception only if every
\* fetch it made succeeded; a failed rainfall fetch gives 1200 mm and 45 mm
\* (AMC II), failed irradiance fetches give GHI 5.2 and 25 degrees, a failed
\* exchange-rate fetch gives 83; and the run that finishes has its aggregate.
C4_FetchFailuresNeverPropagate ==
    \A r \in Runs :
        /\ pc[r] = "http_500" =>
               fetched[r].solar.failed + fetched[r].solar.incomplete_body = 0
        /\ ("flood" \in finished[r] /\ fetched[r].flood = <<"failed">>) =>
               /\ results[r].flood.annual_rainfall_mm = FALLBACK_ANNUAL_P
               /\ results[r].flood.amc_condition = get_amc_condition(FALLBACK_AMC_5DAY)
        /\ ("solar" \in finished[r] /\ fetched[r].solar.failed = SOLAR_YEARS) =>
               results[r].solar.avg_daily_ghi_kwh_m2 = FALLBACK_GHI
        /\ ("carbon" \in finished[r] /\ fetched[r].carbon = <<"failed">>) =>
               results[r].carbon.inputs.usd_inr = DEFAULT_USD_INR
        /\ pc[r] = "done" => full_agg[r] # <<>>

\* C20: a step in which a run completes leaves, as the persisted state of
\* the project, exactly that run's output: one AnalysisResult row whose
\* flood, solar, carbon, environmental_npv, financial_npv and composite_score
\* are the run's, and three Scenario rows, one preserve, one develop and one
\* hybrid in that order, with the run's scenario NPVs; no other step changes
\* the persisted state, so after any sequence of completed runs it is the
\* output of the latest one.
C20_PersistedStateIsLatestRun ==
    [][ /\ \A r \in Runs :
              (pc[r] # "done" /\ pc'[r] = "done") =>
                  /\ Len(db_analysis') = 1
                  /\ db_analysis'[1].project_id = project.id
                  /\ db_analysis'[1].flood_json = results'[r].flood
                  /\ db_analysis'[1].solar_json = results'[r].solar
                  /\ db_analysis'[1].carbon_json = results'[r].carbon
                  /\ db_analysis'[1].environmental_npv = full_agg'[r].environmental_npv
                  /\ db_analysis'[1].financial_npv = full_agg'[r].financial_npv
                  /\ db_analysis'[1].composite_score = full_agg'[r].composite_score
                  /\ Len(db_scenarios') = 3
                  /\ \A i \in 1..3 : db_scenarios'[i].project_id = project.id
                  /\ db_scenarios'[1].scenario_type = "preserve"
                  /\ db_scenarios'[1].npv_30yr = full_agg'[r].scenarios.preserve_npv30_inr
                  /\ db_scenarios'[2].scenario_type = "develop"
                  /\ db_scenarios'[2].npv_30yr = full_agg'[r].scenarios.develop_npv_inr
                  /\ db_scenarios'[3].scenario_type = "hybrid"
                  /\ db_scenarios'[3].npv_30yr = full_agg'[r].scenarios.hybrid_npv_inr
        /\ (\A r \in Runs : pc'[r] = "done" => pc[r] = "done")
               => UNCHANGED <<db_analysis, db_scenarios>>
      ]_vars

\* two runs completed with different outputs: the one row and the three
\* scenarios are those of the second, nothing of the first is left
C20_Witness ==
    /\ pc[1] = "done" /\ pc[2] = "done"
    /\ full_agg[1].environmental_npv # full_agg[2].environmental_npv
    /\ full_agg[1].scenarios.hybrid_npv_inr # full_agg[2].scenarios.hybrid_npv_inr
    /\ Len(db_analysis) = 1
    /\ db_analysis[1].environmental_npv = full_agg[2].environmental_npv
    /\ db_analysis[1].carbon_json = results[2].carbon
    /\ Len(db_scenarios) = 3
    /\ db_scenarios[3].npv_30yr = full_agg[2].scenarios.hybrid_npv_inr

\* C30: the Scenario rows built from a flood risk score in [0, 1] carry
\* preserve risk = max(0, risk - 0.1), hybrid risk = risk and develop risk =
\* min(1, risk + 0.2), so that 0 <= preserve <= hybrid <= develop <= 1, and
\* the nature, construction and solar weights of each row sum to 1.  Checked
\* on the rows every completed run persisted and, with that run's aggregate,
\* on the rows of risk scores across [0, 1], both caps included.
C30_ScenarioRisksOrdered ==
    /\ \A r \in Runs :
           pc[r] = "done" =>
               \A risk \in {results[r].flood.flood_risk_score, 0, 1, 999, 1000, 1001,
                            3500, 7999, 8000, 8001, 9999, 10000} :
                   (0 <= risk /\ risk <= 10000) =>
                       LET rows == scenario_rows(project,
                                       [flood |-> [flood_risk_score |-> risk]],
                                       full_agg[r])
                       IN  /\ Len(rows) = 3
                           /\ rows[1].scenario_type = "preserve"
                           /\ rows[2].scenario_type = "develop"
                           /\ rows[3].scenario_type = "hybrid"
                           /\ rows[1].risk_score = IF risk > 1000 THEN risk - 1000 ELSE 0
                           /\ rows[3].risk_score = risk
                           /\ rows[2].risk_score = IF risk < 8000 THEN risk + 2000 ELSE 10000
                           /\ 0 <= rows[1].risk_score
                           /\ rows[1].risk_score <= rows[3].risk_score
                           /\ rows[3].risk_score <= rows[2].risk_score
                           /\ rows[2].risk_score <= 10000
                           /\ \A i \in 1..3 :
                                 rows[i].allocation_json.nature
                                   + rows[i].allocation_json.construction
                                   + rows[i].allocation_json.solar = 100
    /\ Len(db_scenarios) = 3 =>
           /\ 0 <= db_scenarios[1].risk_score
           /\ db_scenarios[1].risk_score <= db_scenarios[3].risk_score
           /\ db_scenarios[3].risk_score <= db_scenarios[2].risk_score
           /\ db_scenarios[2].risk_score <= 10000
           /\ db_scenarios[1].risk_score = Max(0, db_scenarios[3].risk_score - 1000)
           /\ db_scenarios[2].risk_score = Min(10000, db_scenarios[3].risk_score + 2000)
           /\ \A i \in 1..3 :
                 db_scenarios[i].allocation_json.nature
                   + db_scenarios[i].allocation_json.construction
                   + db_scenarios[i].allocation_json.solar = 100

\* the forest parcel at 100 m after a run: risk 0.1627 persisted as 0.0627
\* (preserve), 0.1627 (hybrid) and 0.3627 (develop)
C30_Witness ==
    /\ \E r \in Runs : pc[r] = "done" /\ results[r].flood.flood_risk_score = 1627
    /\ Len(db_scenarios) = 3
    /\ db_scenarios[1].scenario_type = "preserve" /\ db_scenarios[1].risk_score = 627
    /\ db_scenarios[2].scenario_type = "develop" /\ db_scenarios[2].risk_score = 3627
    /\ db_scenarios[3].scenario_type = "hybrid" /\ db_scenarios[3].risk_score = 1627

\* C28: whatever the interleaving of the overlapping runs on the project,
\* once all of them have finished (and one at least completed) the project
\* has exactly one AnalysisResult and exactly three scenarios, one of each
\* type, and there is one run that the AnalysisResult and the three
\* scenarios all come from.
C28_OneRunPersistedWhole ==
    ( /\ \A r \in Runs : pc[r] \in {"done", "http_404", "http_500"}
      /\ \E r \in Runs : pc[r] = "done" ) =>
        /\ Len(db_analysis) = 1
        /\ Len(db_scenarios) = 3
        /\ \A t \in {"preserve", "develop", "hybrid"} :
               Cardinality({i \in 1..3 : db_scenarios[i].scenario_type = t}) = 1
        /\ \E r \in Runs :
               /\ pc[r] = "done"
               /\ db_analysis[1] = analysis_row(project, results[r], full_agg[r])
               /\ db_analysis[1].flood_json = results[r].flood
               /\ db_analysis[1].solar_json = results[r].solar
               /\ db_analysis[1].carbon_json = results[r].carbon
               /\ db_analysis[1].composite_score = full_agg[r].composite_score
               /\ \A i \in 1..3 :
                      /\ db_scenarios[i].project_id = db_analysis[1].project_id
                      /\ db_scenarios[i].scenario_type = "preserve" =>
                             db_scenarios[i].npv_30yr = full_agg[r].scenarios.preserve_npv30_inr
                      /\ db_scenarios[i].scenario_type = "develop" =>
                             db_scenarios[i].npv_30yr = full_agg[r].scenarios.develop_npv_inr
                      /\ db_scenarios[i].scenario_type = "hybrid" =>
                             /\ db_scenarios[i].npv_30yr = full_agg[r].scenarios.hybrid_npv_inr
                             /\ db_scenarios[i].risk_score = results[r].flood.flood_risk_score

\* two overlapping runs, both sent before either finished its flood fetch,
\* completed with different solar results: what is persisted is run 1's,
\* assessment and scenarios alike
C28_Witness ==
    /\ pc[1] = "done" /\ pc[2] = "done"
    /\ results[1].solar # results[2].solar
    /\ full_agg[1].scenarios.hybrid_npv_inr # full_agg[2].scenarios.hybrid_npv_inr
    /\ Len(db_analysis) = 1 /\ Len(db_scenarios) = 3
    /\ db_analysis[1].solar_json = results[1].solar
    /\ db_scenarios[3].npv_30yr = full_agg[1].scenarios.hybrid_npv_inr


\* C21: a recommendation request for a project that has no persisted
\* analysis is answered with an error (404 when the project is not found
\* for the user, 400 otherwise) and leaves the table ai_recommendations as
\* it was; and after every step a project that has an AIRecommendation row
\* also has an AnalysisResult row, and has one AIRecommendation row only.
C21_NoRecommendationWithoutAnalysis ==
    [][ /\ \A r \in Runs :
              ( /\ pc[r] = "idle" /\ pc'[r] # "idle"
                /\ req'[r].route = "/ai/recommend"
                /\ \A i \in DOMAIN db_analysis :
                       db_analysis[i].project_id # req'[r].project_id )
              => /\ response'[r].status_code
                        = IF /\ project.id = req'[r].project_id
                             /\ project.user_id = req'[r].user_id
                          THEN 400 ELSE 404
                 /\ pc'[r] \in {"http_400", "http_404"}
                 /\ db_recommendation' = db_recommendation
        /\ \A i \in DOMAIN db_recommendation' :
              /\ \E k \in DOMAIN db_analysis' :
                     db_analysis'[k].project_id = db_recommendation'[i].project_id
              /\ \A j \in DOMAIN db_recommendation' :
                     db_recommendation'[j].project_id = db_recommendation'[i].project_id
                         => j = i ]_vars

\* request 1 asked for a recommendation before any analysis was persisted
\* and was answered with 400; request 2 then ran the analysis; no
\* AIRecommendation row exists
C21_Witness ==
    /\ pc[1] = "http_400" /\ req[1].route = "/ai/recommend"
    /\ response[1].status_code = 400
    /\ pc[2] = "done" /\ Len(db_analysis) = 1 /\ db_recommendation = <<>>

\* C29: a request of any of the three routes for a project the authenticated
\* user does not own is answered with 404 'Project not found', starts no
\* engine and computes no result, and leaves the tables analysis_results,
\* scenarios and ai_recommendations as they were; the answer for a project
\* owned by another user equals the answer for a project that does not exist.
C29_ForeignProjectIsNotFound ==
    [][ /\ \A r \in Runs :
              ( /\ pc[r] = "idle" /\ pc'[r] # "idle"
                /\ ~(project.id = req'[r].project_id
                        /\ project.user_id = req'[r].user_id) )
              => /\ response'[r] = [status_code |-> 404, detail |-> "Project not found"]
                 /\ pc'[r] = "http_404"
                 /\ db_analysis' = db_analysis
                 /\ db_scenarios' = db_scenarios
                 /\ db_recommendation' = db_recommendation
        /\ \A r \in Runs :
              ( /\ req'[r] # <<>>
                /\ ~(project.id = req'[r].project_id
                        /\ project.user_id = req'[r].user_id) )
              => /\ pc'[r] = "http_404"
                 /\ started'[r] = {} /\ finished'[r] = {}
                 /\ results'[r] = <<>> /\ full_agg'[r] = <<>>
                 /\ \A q \in Runs :
                        ( /\ req'[q] # <<>>
                          /\ req'[q].project_id # project.id )
                        => response'[q] = response'[r] ]_vars

\* request 1 asked for a recommendation for project 1 as user 2, who does
\* not own it, request 2 read the results of project 2, which does not
\* exist: both were answered 404 while project 1 has a persisted analysis
C29_Witness ==
    /\ req[1] = [route |-> "/ai/recommend", project_id |-> 1, user_id |-> 2]
    /\ req[2] = [route |-> "/analysis/results", project_id |-> 2, user_id |-> 1]
    /\ project.id = 1 /\ project.user_id = 1
    /\ pc[1] = "http_404" /\ pc[2] = "http_404"
    /\ response[1] = response[2]
    /\ Len(db_analysis) = 1 /\ Len(db_scenarios) = 3

====
